---- MODULE Spec2Model ----
(***************************************************************************)
(* Commission-accounting pipeline of the influencer backend: webhook       *)
(* ingestion of sales (Shopify, CartPanda and the generic adapter),        *)
(* tiered commission resolution, and the stores they work on.              *)
(*                                                                         *)
(* Every "await" of a handler that touches the database or the messaging   *)
(* provider is one atomic step; the local computation between two awaits   *)
(* is folded into the step that precedes it.                               *)
(*                                                                         *)
(* Money: saleValue is an integer number of currency units; a commission   *)
(* amount is kept in hundredths of that unit, so that                      *)
(* saleValue * (commissionPercentage / 100) is the integer                 *)
(* saleValue * commissionPercentage.                                       *)
(***************************************************************************)
EXTENDS Integers, Sequences, FiniteSets, TLC

VARIABLES
    users,          \* the User collection: id -> document
    tiers,          \* the CommissionTier collection: a set of documents
    sales,          \* the Sale collection: a sequence, _id = position
    calls,          \* the webhook requests: call id -> handler position and locals
    notifications,  \* the messages handed to the messaging provider
    preview,        \* result of the last standalone commission resolution
    payments,       \* the CommissionPayment collection: a sequence, _id = position
    job,            \* the payment generation request: position and locals
    sweeps,         \* the process-pending requests: id -> position and locals
    bulk            \* the bulk tier replacement requests: position and locals

vars == <<users, tiers, sales, calls, notifications, preview, payments, job, sweeps, bulk>>

(***************************************************************************)
(* Values                                                                  *)
(***************************************************************************)
\* undefined / null / a missing field, for string-valued and reference fields
None == "none"

\* optional numbers are sequences of length 0 or 1
Absent == <<>>
Some(v) == <<v>>

Calls == {"c1", "c2"}
RoleNames == {"influencer", "manager"}

\* the users in natural (insertion) order of the collection
UserOrder == <<"m1", "m2", "i1">>
UserIds == {UserOrder[i] : i \in DOMAIN UserOrder}

\* largest sale value and tier minimum that is drawn
MaxValue == 3
\* span of transaction dates, in days
MaxDate == 2
Dates == 1..MaxDate

(***************************************************************************)
(* Payload values (JSON as the handlers see it)                            *)
(***************************************************************************)
\* an order identifier field: absent, a JSON number or a JSON string
IdAbsent == [kind |-> "absent", n |-> 0, s |-> ""]
IdNum(n) == [kind |-> "num", n |-> n, s |-> ""]
IdStr(s) == [kind |-> "str", n |-> 0, s |-> s]

\* a total / value field: absent, null, a number, the string "<n>.00",
\* the string "R$ <n>.00", or the string "abc"
TAbsent == [kind |-> "absent", n |-> 0]
TNull == [kind |-> "null", n |-> 0]
TNum(n) == [kind |-> "num", n |-> n]
TStr(n) == [kind |-> "str", n |-> n]
TCur(n) == [kind |-> "cur", n |-> n]
TBad == [kind |-> "bad", n |-> 0]

\* an entry of a discount_codes array: an object (code None: no code
\* property) or a plain string
EObj(code) == [kind |-> "obj", code |-> code]
EStr(s) == [kind |-> "str", code |-> s]

\* discount_codes: absent, a string, an array of entries, or one object
DAbsent == [kind |-> "absent", s |-> "", arr |-> <<>>]
DStr(s) == [kind |-> "str", s |-> s, arr |-> <<>>]
DArr(a) == [kind |-> "arr", s |-> "", arr |-> a]
DObj(code) == [kind |-> "obj", s |-> "", arr |-> <<EObj(code)>>]

\* Number.prototype.toString / String(...) on the identifiers drawn
NumToString(n) ==
    CASE n = 1 -> "1"
      [] n = 2 -> "2"
      [] OTHER -> "0"

\* String.prototype.trim on the strings drawn
Trim(s) ==
    CASE s = " " -> ""
      [] s = " a" -> "a"
      [] OTHER -> s

\* JavaScript truthiness of an identifier field
IdTruthy(id) ==
    \/ id.kind = "num" /\ id.n # 0
    \/ id.kind = "str" /\ id.s # ""

\* a || b || c over identifier fields
FirstTruthyId(ids) ==
    IF \E i \in DOMAIN ids : IdTruthy(ids[i])
    THEN ids[CHOOSE i \in DOMAIN ids :
                 IdTruthy(ids[i]) /\ \A j \in 1..(i - 1) : ~IdTruthy(ids[j])]
    ELSE IdAbsent

\* finalOrderId.toString(), and Mongoose's cast of orderId to String
IdToString(id) == IF id.kind = "num" THEN NumToString(id.n) ELSE id.s

\* JavaScript truthiness of a total field (every string drawn is non-empty)
TotalTruthy(t) ==
    \/ t.kind = "num" /\ t.n # 0
    \/ t.kind \in {"str", "cur", "bad"}

\* a parsed number: NaN, or a value
NaN == [nan |-> TRUE, n |-> 0]
Num(n) == [nan |-> FALSE, n |-> n]

\* parseFloat(x) on a value that is a number or a string
ParseFloat(t) ==
    CASE t.kind = "num" -> Num(t.n)
      [] t.kind = "str" -> Num(t.n)
      [] OTHER -> NaN          \* "R$ 3.00", "abc"

\* parseFloat(x.replace(/[^\d.-]/g, '')) on a string
StripAndParse(t) ==
    CASE t.kind = "str" -> Num(t.n)
      [] t.kind = "cur" -> Num(t.n)
      [] OTHER -> NaN          \* "abc" -> ""

\* Mongoose's cast of a value to Number (Number(x), NaN is a cast error)
CastNumber(t) ==
    CASE t.kind = "num" -> Num(t.n)
      [] t.kind = "str" -> Num(t.n)
      [] OTHER -> NaN

(***************************************************************************)
(* The stores                                                              *)
(***************************************************************************)
\* User.findOne({ couponCode: code }): the first document in natural order
\* whose couponCode equals code.  A code of None is the filter value
\* undefined, which the driver sends as null and which matches every
\* document that has no couponCode.
FindUserByCoupon(code) ==
    IF \E i \in DOMAIN UserOrder :
           users[UserOrder[i]].exists /\ users[UserOrder[i]].couponCode = code
    THEN UserOrder[CHOOSE i \in DOMAIN UserOrder :
             /\ users[UserOrder[i]].exists
             /\ users[UserOrder[i]].couponCode = code
             /\ \A j \in 1..(i - 1) :
                    ~(users[UserOrder[j]].exists /\ users[UserOrder[j]].couponCode = code)]
    ELSE None

\* User.findById(id)
FindUserById(id) == IF id \in UserIds /\ users[id].exists THEN id ELSE None

\* Sale.findOne({ orderId }): the _id of the stored sale, 0 when there is none
\* a lookup that finds nothing
NoSaleLookup(orderId) == 0

FindSaleByOrderId(orderId) ==
    IF \E i \in DOMAIN sales : sales[i].orderId = orderId
    THEN CHOOSE i \in DOMAIN sales :
             sales[i].orderId = orderId /\ \A j \in 1..(i - 1) : sales[j].orderId # orderId
    ELSE 0

\* a collection without the index refuses nothing
NoUniqueIndex(doc) == FALSE

\* the unique index on Sale.orderId: an insert of doc is refused (E11000)
DuplicateKey(doc) == \E i \in DOMAIN sales : sales[i].orderId = doc.orderId

\* a schema whose saleValue has no minimum
SaleValidAnyNumber(value) == ~value.nan

\* the schema validation of a new Sale: saleValue is a number, min 0
SaleValid(value) == ~value.nan /\ value.n >= 0

\* the query without its isActive condition
ApplicableTiersAnyState(stored, saleValue, role) ==
    {t \in stored : t.appliesTo = role /\ t.minSalesValue <= saleValue}

\* CommissionTier.find({appliesTo, isActive: true, minSalesValue: {$lte: v}})
ApplicableTiers(stored, saleValue, role) ==
    {t \in stored : t.appliesTo = role /\ t.isActive /\ t.minSalesValue <= saleValue}

\* the ascending sort, .sort({ minSalesValue: 1 }) then [0]
SortAscFirst(found) ==
    {t \in found : \A u \in found : t.minSalesValue <= u.minSalesValue}

\* .sort({ minSalesValue: -1 }) then [0]: the documents that can come
\* first (documents with equal minSalesValue come in no defined order)
SortDescFirst(found) ==
    {t \in found : \A u \in found : u.minSalesValue <= t.minSalesValue}

\* calculateCommission(saleValue, role) over the stored tiers: the tier
\* applied (pct 0, no tier) and the commission, in hundredths; a set, one
\* element per possible order of the query's result
calculateCommission(stored, saleValue, role) ==
    IF ApplicableTiers(stored, saleValue, role) = {}
    THEN {[pct |-> 0, tier |-> 0, commission |-> 0]}
    ELSE {[pct |-> t.commissionPercentage, tier |-> t.id,
           commission |-> saleValue * t.commissionPercentage] :
              t \in SortDescFirst(ApplicableTiers(stored, saleValue, role))}

\* the sweep's function over a query that leaves out isActive
calculateCommissionForSaleAnyState(stored, saleValue, role) ==
    IF ApplicableTiersAnyState(stored, saleValue, role) = {}
    THEN {[pct |-> 0, tier |-> 0, commission |-> 0]}
    ELSE {[pct |-> t.commissionPercentage, tier |-> t.id,
           commission |-> saleValue * t.commissionPercentage] :
              t \in SortDescFirst(ApplicableTiersAnyState(stored, saleValue, role))}

\* calculateCommissionForSale(saleValue, role) of the commission service,
\* the function of the sweep: find with appliesTo, isActive and
\* minSalesValue <= saleValue, sorted by minSalesValue descending, 0 when
\* the result is empty, else saleValue * (percentage / 100) of tiers[0]
calculateCommissionForSale(stored, saleValue, role) ==
    LET found == {t \in stored : /\ t.appliesTo = role
                                 /\ t.isActive = TRUE
                                 /\ t.minSalesValue <= saleValue}
    IN IF Cardinality(found) = 0
       THEN {[pct |-> 0, tier |-> 0, commission |-> 0]}
       ELSE {[pct |-> applicableTier.commissionPercentage, tier |-> applicableTier.id,
              commission |-> saleValue * applicableTier.commissionPercentage] :
                 applicableTier \in SortDescFirst(found)}

(***************************************************************************)
(* The payloads drawn                                                      *)
(***************************************************************************)
SaleValues == {1, MaxValue}
OrderIdShapes == {IdAbsent, IdNum(1), IdStr("2")}
TotalShapes ==
    {TAbsent, TNull, TBad, TNum(0 - 1), TNum(0), TNum(1), TStr(MaxValue), TCur(MaxValue)}
DiscountShapes ==
    {DAbsent, DStr("a"), DStr(" a"), DStr("z"),
     DArr(<<>>), DArr(<<EObj("a")>>), DArr(<<EStr("a")>>), DArr(<<EStr(" a")>>),
     DArr(<<EObj(None)>>), DArr(<<EObj(""), EObj("a")>>),
     DArr(<<EObj(None), EObj("a")>>), DObj("a")}
DateShapes == {Absent, Some(1)}

\* the identifier fields of an order, first field first
IdChains ==
    {<<i, IdAbsent, IdAbsent>> : i \in OrderIdShapes}
        \cup {<<IdAbsent, IdStr("2"), IdAbsent>>, <<IdNum(0), IdAbsent, IdStr("1")>>}
\* id, order_number, number and name of a CartPanda order
CartPandaIdChains ==
    {<<i, IdAbsent, IdAbsent, IdAbsent>> : i \in OrderIdShapes}
        \cup {<<IdAbsent, IdAbsent, IdNum(2), IdAbsent>>}
\* total_price and current_total_price
TotalPairs ==
    {<<t, TAbsent>> : t \in TotalShapes}
        \cup {<<TAbsent, TNum(MaxValue)>>, <<TNum(0), TStr(1)>>}

NoOrder == [order |-> FALSE, event |-> "order.paid", ids |-> <<IdAbsent, IdAbsent, IdAbsent>>,
            totals |-> <<TAbsent, TAbsent>>, discount_codes |-> DAbsent,
            created_at |-> Absent]

\* What a payload carries, in the words of the intake contract; used by the
\* properties only, never by the handlers.
\* The order identifier carried: the first identifier field that holds one
CarriedOrderId(ids) ==
    IF \E i \in DOMAIN ids : IdTruthy(ids[i])
    THEN LET first == CHOOSE i \in DOMAIN ids :
                          IdTruthy(ids[i]) /\ \A j \in DOMAIN ids : IdTruthy(ids[j]) => i <= j
         IN IF ids[first].kind = "str" THEN ids[first].s
            ELSE IF ids[first].n = 1 THEN "1" ELSE "2"
    ELSE None
\* a total is plainly usable (a positive amount, as a number or as a string
\* with or without currency symbols), plainly unusable (absent, null, not
\* numeric), or neither (zero, negative)
TotalForm(t) ==
    CASE t.kind \in {"absent", "null", "bad"} -> "malformed"
      [] t.n > 0 -> "well"
      [] OTHER -> "other"
\* the form of a payload: well (an order with an identifier and a usable
\* total in its first total field), malformed (no order object, no
\* identifier or no usable total in any field), or neither
PayloadForm(order, ids, totals) ==
    IF ~order \/ CarriedOrderId(ids) = None
          \/ \A i \in DOMAIN totals : TotalForm(totals[i]) = "malformed"
    THEN "malformed"
    ELSE IF TotalForm(totals[1]) = "well" THEN "well"
    ELSE "other"
NonEmptyCode(e) == e.code \notin {None, ""}
\* the first non-empty code of discount_codes, None when there is none
CarriedCoupon(d) ==
    CASE d.kind = "str" -> IF Trim(d.s) = "" THEN None ELSE Trim(d.s)
      [] d.kind \in {"arr", "obj"} ->
            IF \E i \in DOMAIN d.arr : NonEmptyCode(d.arr[i])
            THEN d.arr[CHOOSE i \in DOMAIN d.arr :
                     NonEmptyCode(d.arr[i])
                     /\ \A j \in 1..(i - 1) : ~NonEmptyCode(d.arr[j])].code
            ELSE None
      [] OTHER -> None
\* the payload as the properties see it
Given(form, orderId, coupon) ==
    [form |-> form, orderId |-> orderId, coupon |-> coupon,
     encoding |-> "none", code |-> None]
\* how discount_codes writes a single code: as a string, as an array of
\* one object or of one string, or as an object; "later": an array whose
\* first entry has no code and a later entry has one
Encoding(d) ==
    CASE d.kind = "str" /\ d.s # "" -> "string"
      [] d.kind = "arr" /\ Len(d.arr) = 1 /\ NonEmptyCode(d.arr[1]) ->
            IF d.arr[1].kind = "obj" THEN "objects" ELSE "strings"
      [] d.kind = "arr" /\ Len(d.arr) > 1 /\ ~NonEmptyCode(d.arr[1])
            /\ (\E i \in DOMAIN d.arr : NonEmptyCode(d.arr[i])) -> "later"
      [] d.kind = "obj" /\ NonEmptyCode(d.arr[1]) -> "object"
      [] OTHER -> "none"
EncodedCode(d) ==
    CASE Encoding(d) \in {"none", "later"} -> None
      [] Encoding(d) = "string" -> d.s
      [] OTHER -> d.arr[1].code
GivenOfOrder(body) ==
    [Given(IF body.event = "order.paid"
           THEN PayloadForm(body.order, body.ids, body.totals) ELSE "other",
           CarriedOrderId(body.ids), CarriedCoupon(body.discount_codes))
        EXCEPT !.encoding = Encoding(body.discount_codes),
               !.code = EncodedCode(body.discount_codes)]
\* the generic payload names its coupon in a field of its own; without it
\* the payload is not plainly well formed
GivenOfSale(body) ==
    LET form == PayloadForm(TRUE, <<body.orderId>>, <<body.orderValue>>)
        coupon == IF body.couponCode = "" THEN None ELSE body.couponCode
    IN Given(IF form = "well" /\ coupon = None THEN "other" ELSE form,
             CarriedOrderId(<<body.orderId>>), coupon)

\* req.body of POST /api/webhooks/shopify
ShopifyBodies ==
    {NoOrder} \cup
    [order : {TRUE}, event : {"order.paid"}, ids : IdChains, totals : TotalPairs,
     discount_codes : DiscountShapes, created_at : DateShapes]

\* req.body of POST /api/webhooks/cartpanda (totals: total_price;
\* created_at: processed_at || created_at)
CartPandaBodies ==
    {NoOrder} \cup
    [order : {TRUE}, event : {"order.paid"}, ids : CartPandaIdChains,
     totals : {<<t, TAbsent>> : t \in TotalShapes},
     discount_codes : DiscountShapes, created_at : DateShapes] \cup
    [order : {TRUE}, event : {"order.created"}, ids : {<<IdNum(1), IdAbsent, IdAbsent, IdAbsent>>},
     totals : {<<TNum(1), TAbsent>>},
     discount_codes : {DStr("a")}, created_at : {Absent}]

\* req.body of POST /api/webhooks/sale
GenericBodies ==
    [orderId : OrderIdShapes \cup {IdStr("1")}, orderValue : TotalShapes,
     couponCode : {None, "", "a", "z"}]

\* the deliveries of well-formed orders that race with each other
PlainIds == {IdNum(1), IdStr("2")}
PlainShopifyBodies ==
    [order : {TRUE}, event : {"order.paid"},
     ids : {<<i, IdAbsent, IdAbsent>> : i \in PlainIds},
     totals : {<<TStr(v), TAbsent>> : v \in SaleValues},
     discount_codes : {DArr(<<EObj("a")>>), DArr(<<EObj("z")>>)},
     created_at : {Some(1)}]
PlainCartPandaBodies ==
    [order : {TRUE}, event : {"order.paid"},
     ids : {<<i, IdAbsent, IdAbsent, IdAbsent>> : i \in PlainIds},
     totals : {<<TNum(v), TAbsent>> : v \in SaleValues},
     discount_codes : {DStr("a"), DStr("z")},
     created_at : {Some(1)}]
PlainGenericBodies ==
    [orderId : {IdStr("1"), IdStr("2")}, orderValue : {TNum(v) : v \in SaleValues},
     couponCode : {"a", "z"}]

(***************************************************************************)
(* Normalisation, as each handler does it                                  *)
(***************************************************************************)
\* a value the handler goes on with: ok (n), nan, or typeerror (the later
\* finalTotalPrice.toString() throws)
Value(st, n) == [st |-> st, n |-> n]
OfParsed(p) == IF p.nan THEN Value("nan", 0) ELSE Value("ok", p.n)

\* processShopifyWebhook: finalTotalPrice = total_price || current_total_price
ShopifyFinalTotal(body) ==
    IF TotalTruthy(body.totals[1]) THEN body.totals[1] ELSE body.totals[2]

\* processShopifyWebhook: the validation of lines 35-65
ShopifyAccepts(body) ==
    /\ body.order
    /\ IdTruthy(FirstTruthyId(body.ids))
    /\ TotalTruthy(ShopifyFinalTotal(body))

\* processShopifyWebhook: orderValue = parseFloat(finalTotalPrice)
ShopifyOrderValue(body) == OfParsed(ParseFloat(ShopifyFinalTotal(body)))

\* a coupon extraction: nocoupon (the handler answers "no coupon"),
\* typeerror (the property access throws), or code (None: undefined)
Extracted(st, code) == [st |-> st, code |-> code]

\* processShopifyWebhook: lines 77-86
ShopifyCoupon(d) ==
    CASE d.kind = "absent" -> Extracted("nocoupon", None)
      [] d.kind = "str" ->
            IF d.s = "" THEN Extracted("nocoupon", None)
            ELSE Extracted("code", None)          \* "a"[0].code is undefined
      [] d.kind = "arr" ->
            IF Len(d.arr) = 0 THEN Extracted("nocoupon", None)
            ELSE IF d.arr[1].kind = "obj" THEN Extracted("code", d.arr[1].code)
            ELSE Extracted("code", None)          \* a string entry has no code
      [] OTHER -> Extracted("typeerror", None)    \* an object: [0] is undefined

\* processCartPandaWebhook: lines 229-232
CartPandaFinalTotal(body) ==
    LET t == body.totals[1] IN
    CASE t.kind \in {"str", "cur", "bad"} -> OfParsed(StripAndParse(t))
      [] t.kind = "num" -> Value("ok", t.n)
      [] t.kind = "null" -> Value("typeerror", 0)
      [] OTHER -> Value("undefined", 0)

\* processCartPandaWebhook: the validation of lines 203-238
\* (isNaN(null) is false: a null total passes)
CartPandaAccepts(body) ==
    /\ body.order
    /\ body.event = "order.paid"
    /\ IdTruthy(FirstTruthyId(body.ids))
    /\ CartPandaFinalTotal(body).st \notin {"undefined", "nan"}

\* processCartPandaWebhook: lines 251-278
CartPandaCoupon(d) ==
    LET code ==
            CASE d.kind = "str" -> IF d.s = "" THEN None ELSE Trim(d.s)
              [] d.kind = "arr" ->
                    IF Len(d.arr) = 0 THEN None
                    ELSE IF d.arr[1].kind = "obj"
                         THEN (IF d.arr[1].code \notin {None, ""}
                               THEN d.arr[1].code ELSE None)
                         ELSE d.arr[1].code
              [] d.kind = "obj" ->
                    IF d.arr[1].code \notin {None, ""} THEN d.arr[1].code ELSE None
              [] OTHER -> None
    IN IF code \in {None, ""} THEN Extracted("nocoupon", None)
       ELSE Extracted("code", code)

\* processSaleWebhook: the validation of lines 397-400
GenericAccepts(body) ==
    /\ IdTruthy(body.orderId)
    /\ TotalTruthy(body.orderValue)
    /\ body.couponCode \notin {None, ""}

\* processSaleWebhook: orderValue as Mongoose casts it in the tier query
\* and in Sale.create
GenericOrderValue(body) == OfParsed(CastNumber(body.orderValue))

(***************************************************************************)
(* A webhook request                                                       *)
(***************************************************************************)
\* res.status(...).json(...): the status, the saleId of the body (0: none)
\* and which body it is
Response(status, saleId, body) == [status |-> status, saleId |-> saleId, body |-> body]
NoResponse == Response(0, 0, "none")

\* a request that has not arrived; the fields are the handler's locals,
\* saleId the _id of newSale, and given, salesAtStart, infPct, mgrPct,
\* conflict, written (the document stored) and notify (how the notification
\* step went) what the properties need to know of the request's history
IdleCall ==
    [pc |-> "idle", adapter |-> None, orderId |-> None,
     orderValue |-> Value("ok", 0), rawString |-> FALSE,
     couponCode |-> None, transactionDate |-> 0,
     influencer |-> None, infManager |-> None, infWhatsapp |-> FALSE,
     manager |-> None, influencerCommission |-> 0, managerCommission |-> 0,
     saleId |-> 0, response |-> NoResponse,
     given |-> Given("other", None, None), salesAtStart |-> 0,
     infPct |-> 0, mgrPct |-> 0, conflict |-> FALSE,
     written |-> <<>>, notify |-> "none"]

\* the request after its response was sent: the locals are gone
Done(call, response) ==
    [IdleCall EXCEPT !.pc = "done", !.adapter = call.adapter,
                     !.orderId = call.orderId, !.saleId = call.saleId,
                     !.response = response, !.given = call.given,
                     !.salesAtStart = call.salesAtStart,
                     !.infPct = call.infPct, !.mgrPct = call.mgrPct,
                     !.conflict = call.conflict,
                     !.written = call.written, !.notify = call.notify]

\* errorHandler: a thrown error answers with res.statusCode, 500 if it is 200
ErrorStatus(statusCode) == IF statusCode = 200 THEN 500 ELSE statusCode
Thrown(call, statusCode) == Done(call, Response(ErrorStatus(statusCode), 0, "error"))

\* the steps 1-2 that the Shopify and CartPanda handlers share once the
\* payload is accepted: the duplicate lookup and the coupon check
AfterValidation(call, orderId, orderValue, coupon, date) ==
    LET known == [call EXCEPT !.orderId = orderId] IN
    IF FindSaleByOrderId(orderId) # 0
    THEN Done(known, Response(200, FindSaleByOrderId(orderId), "already"))
    ELSE IF coupon.st = "nocoupon" THEN Done(known, Response(200, 0, "unprocessed"))
    ELSE IF coupon.st = "typeerror" THEN Thrown(known, 200)
    ELSE [known EXCEPT !.pc = "findInfluencer", !.orderValue = orderValue,
                       !.couponCode = coupon.code, !.transactionDate = date]

\* Date.now(): the present is the last day modelled
Now == MaxDate
\* new Date(created_at || Date.now())
DateOf(created_at) == IF created_at = Absent THEN Now ELSE created_at[1]

\* a request arrives; requests are interchangeable, so they are numbered in
\* the order of their arrival
Arrives(c) ==
    /\ calls[c].pc = "idle"
    /\ c = "c2" => calls["c1"].pc # "idle"

\* processShopifyWebhook up to its first User query
processShopifyWebhook(c, bodies) ==
    /\ Arrives(c)
    /\ \E body \in bodies :
         LET call == [IdleCall EXCEPT !.adapter = "shopify",
                                      !.given = GivenOfOrder(body),
                                      !.salesAtStart = Len(sales)]
         IN calls' = [calls EXCEPT ![c] =
                IF ~ShopifyAccepts(body) THEN Thrown(call, 400)
                ELSE AfterValidation(call, IdToString(FirstTruthyId(body.ids)),
                                     ShopifyOrderValue(body),
                                     ShopifyCoupon(body.discount_codes),
                                     DateOf(body.created_at))]
    /\ UNCHANGED <<users, tiers, sales, notifications, preview, payments, job, sweeps, bulk>>

\* processCartPandaWebhook up to its first User query
processCartPandaWebhook(c, bodies) ==
    /\ Arrives(c)
    /\ \E body \in bodies :
         LET call == [IdleCall EXCEPT !.adapter = "cartpanda",
                                      !.given = GivenOfOrder(body),
                                      !.salesAtStart = Len(sales)]
         IN calls' = [calls EXCEPT ![c] =
                IF ~CartPandaAccepts(body) THEN Thrown(call, 400)
                ELSE AfterValidation(call, IdToString(FirstTruthyId(body.ids)),
                                     CartPandaFinalTotal(body),
                                     CartPandaCoupon(body.discount_codes),
                                     DateOf(body.created_at))]
    /\ UNCHANGED <<users, tiers, sales, notifications, preview, payments, job, sweeps, bulk>>

\* processSaleWebhook up to its User query
processSaleWebhook(c, bodies) ==
    /\ Arrives(c)
    /\ \E body \in bodies :
         LET call == [IdleCall EXCEPT !.adapter = "generic",
                                      !.given = GivenOfSale(body),
                                      !.salesAtStart = Len(sales),
                                      !.rawString = body.orderValue.kind # "num"]
         IN calls' = [calls EXCEPT ![c] =
                IF ~GenericAccepts(body) THEN Thrown(call, 400)
                ELSE AfterValidation(call, IdToString(body.orderId),
                                     GenericOrderValue(body),
                                     Extracted("code", body.couponCode), Now)]
    /\ UNCHANGED <<users, tiers, sales, notifications, preview, payments, job, sweeps, bulk>>

\* step 3 of the handlers: User.findOne({ couponCode }) and what follows it
FindInfluencer(c) ==
    LET call == calls[c]
        influencer == FindUserByCoupon(call.couponCode)
    IN
    /\ call.pc = "findInfluencer"
    /\ calls' = [calls EXCEPT ![c] =
           IF influencer = None
           THEN (IF call.adapter = "generic" THEN Thrown(call, 400)
                 ELSE Done(call, Response(200, 0, "unprocessed")))
           ELSE [call EXCEPT !.influencer = influencer,
                             !.infManager = users[influencer].manager,
                             !.infWhatsapp = users[influencer].whatsappNumber,
                             !.pc = IF users[influencer].manager # None
                                    THEN "findManager" ELSE "calcInfluencer"]]
    /\ UNCHANGED <<users, tiers, sales, notifications, preview, payments, job, sweeps, bulk>>

\* step 4: User.findById(influencer.manager)
FindManager(c) ==
    LET call == calls[c] IN
    /\ call.pc = "findManager"
    /\ calls' = [calls EXCEPT ![c] =
           [call EXCEPT !.manager = FindUserById(call.infManager),
                        !.pc = "calcInfluencer"]]
    /\ UNCHANGED <<users, tiers, sales, notifications, preview, payments, job, sweeps, bulk>>

\* step 5, first query: calculateCommission(orderValue, 'influencer')
CalcInfluencerCommission(c) ==
    LET call == calls[c] IN
    /\ call.pc = "calcInfluencer"
    /\ IF call.orderValue.st # "ok"
       THEN calls' = [calls EXCEPT ![c] = Thrown(call, 200)]
       ELSE \E r \in calculateCommission(tiers, call.orderValue.n, "influencer") :
                calls' = [calls EXCEPT ![c] =
                    [call EXCEPT !.influencerCommission = r.commission,
                                 !.infPct = r.pct,
                                 !.pc = IF call.manager # None
                                        THEN "calcManager" ELSE "create"]]
    /\ UNCHANGED <<users, tiers, sales, notifications, preview, payments, job, sweeps, bulk>>

\* step 5, second query: calculateCommission(orderValue, 'manager')
CalcManagerCommission(c) ==
    LET call == calls[c] IN
    /\ call.pc = "calcManager"
    /\ \E r \in calculateCommission(tiers, call.orderValue.n, "manager") :
           calls' = [calls EXCEPT ![c] =
               [call EXCEPT !.managerCommission = r.commission,
                            !.mgrPct = r.pct, !.pc = "create"]]
    /\ UNCHANGED <<users, tiers, sales, notifications, preview, payments, job, sweeps, bulk>>

\* a document that leaves the commission to the sweep
NewSalePending(c, call) ==
    [influencer |-> call.influencer, manager |-> call.manager,
     orderId |-> call.orderId, saleValue |-> call.orderValue.n,
     commissionCalculated |-> FALSE,
     influencerCommissionEarned |-> 0,
     managerCommissionEarned |-> 0,
     couponCodeUsed |-> call.couponCode,
     transactionDate |-> call.transactionDate,
     processedViaWebhook |-> TRUE,
     createdBy |-> c]

\* the document of Sale.create
NewSale(c, call) ==
    [influencer |-> call.influencer, manager |-> call.manager,
     orderId |-> call.orderId, saleValue |-> call.orderValue.n,
     commissionCalculated |-> TRUE,
     influencerCommissionEarned |-> call.influencerCommission,
     managerCommissionEarned |-> call.managerCommission,
     couponCodeUsed |-> call.couponCode,
     transactionDate |-> call.transactionDate,
     processedViaWebhook |-> TRUE,
     createdBy |-> c]

\* a create whose refused insert is taken for the stored Sale and notified
CreateSaleOrAdopt(c) ==
    LET call == calls[c]
        doc == NewSale(c, call)
    IN
    /\ call.pc = "create"
    /\ IF DuplicateKey(doc)
       THEN /\ calls' = [calls EXCEPT ![c] =
                   [call EXCEPT !.conflict = TRUE, !.pc = "send",
                                !.saleId = FindSaleByOrderId(doc.orderId)]]
            /\ UNCHANGED sales
       ELSE /\ sales' = Append(sales, doc)
            /\ calls' = [calls EXCEPT ![c] =
                   [call EXCEPT !.saleId = Len(sales) + 1, !.written = <<doc>>,
                                !.pc = "send"]]
    /\ UNCHANGED <<users, tiers, notifications, preview, payments, job, sweeps, bulk>>

\* step 6: Sale.create, and the decision to notify
CreateSale(c) ==
    LET call == calls[c]
        doc == NewSale(c, call)
    IN
    /\ call.pc = "create"
    /\ IF ~SaleValid(Num(doc.saleValue))
       THEN /\ calls' = [calls EXCEPT ![c] = Thrown(call, 200)]
            /\ UNCHANGED sales
       ELSE IF DuplicateKey(doc)
       THEN /\ calls' = [calls EXCEPT ![c] = Thrown([call EXCEPT !.conflict = TRUE], 200)]
            /\ UNCHANGED sales
       ELSE /\ sales' = Append(sales, doc)
            /\ calls' = [calls EXCEPT ![c] =
                   LET created == [call EXCEPT !.saleId = Len(sales) + 1,
                                               !.written = <<doc>>]
                   IN
                   IF ~call.infWhatsapp
                   THEN Done(created, Response(201, Len(sales) + 1, "created"))
                   ELSE IF call.infManager = None
                   THEN Done([created EXCEPT !.notify = "noManager"],
                             Response(201, Len(sales) + 1, "created"))
                   ELSE [created EXCEPT !.pc = "notifyLookup"]]
    /\ UNCHANGED <<users, tiers, notifications, preview, payments, job, sweeps, bulk>>

\* step 7: User.findById(influencer.manager).select('tokenWhats ...') inside
\* the try block; the query may fail, and rendering the message throws when
\* orderValue is a string (orderValue.toFixed)
NotifyLookup(c) ==
    LET call == calls[c]
        manager == FindUserById(call.infManager)
        created(how) == Done([call EXCEPT !.notify = how],
                             Response(201, call.saleId, "created"))
    IN
    /\ call.pc = "notifyLookup"
    /\ \E queryFails \in BOOLEAN :
           calls' = [calls EXCEPT ![c] =
               IF queryFails THEN created("lookupFailed")
               ELSE IF manager = None \/ ~users[manager].tokenWhats
               THEN created("noCredential")
               ELSE IF call.rawString THEN created("renderError")
               ELSE [call EXCEPT !.pc = "send"]]
    /\ UNCHANGED <<users, tiers, sales, notifications, preview, payments, job, sweeps, bulk>>

\* the send outside any try block: its error reaches the outer catch
SendNotificationUncaught(c) ==
    LET call == calls[c] IN
    /\ call.pc = "send"
    /\ \E sent \in BOOLEAN :
           /\ notifications' = notifications \cup
                  {[kind |-> "newSale", by |-> c, about |-> call.saleId,
                    to |-> call.influencer, sent |-> sent]}
           /\ calls' = [calls EXCEPT ![c] =
                  IF sent
                  THEN Done([call EXCEPT !.notify = "sent"],
                            Response(201, call.saleId, "created"))
                  ELSE Thrown([call EXCEPT !.notify = "sendError"], 200)]
    /\ UNCHANGED <<users, tiers, sales, preview, payments, job, sweeps, bulk>>

\* step 7: sendNewSaleNotification inside the try block, then the 201
SendNotification(c) ==
    LET call == calls[c] IN
    /\ call.pc = "send"
    /\ \E sent \in BOOLEAN :
           /\ notifications' = notifications \cup
                  {[kind |-> "newSale", by |-> c, about |-> call.saleId,
                    to |-> call.influencer, sent |-> sent]}
           /\ calls' = [calls EXCEPT ![c] =
                  Done([call EXCEPT !.notify = IF sent THEN "sent" ELSE "sendError"],
                       Response(201, call.saleId, "created"))]
    /\ UNCHANGED <<users, tiers, sales, preview, payments, job, sweeps, bulk>>

(***************************************************************************)
(* Tier administration                                                     *)
(***************************************************************************)
\* most tier documents stored at once
MaxTiers == 2
TierMins == {0, 2}
TierMaxes == {Absent, Some(2)}
TierPcts == {0, 10, 20}

\* the _id of the next tier document
NextTierId == IF tiers = {} THEN 1
              ELSE 1 + CHOOSE n \in {t.id : t \in tiers} : \A t \in tiers : t.id <= n

Tier(id, min, max, pct, role, active) ==
    [id |-> id, minSalesValue |-> min, maxSalesValue |-> max,
     commissionPercentage |-> pct, appliesTo |-> role, isActive |-> active]

NoPreview == [role |-> None, saleValue |-> 0, commission |-> 0]

\* createCommissionTier: a request that fails its validation stores nothing.
\* The body writes minSalesValue and maxSalesValue as JSON numbers
\* ("numbers"), as strings of their digits ("strings") or as strings with
\* the maximum in decimal notation, "2.0" ("decimals"); the handler compares
\* the values as the body has them, two strings by their characters (one
\* digit each here, so "2.0" <= "2" is false and "2.0" <= "3" is true), and
\* CommissionTier.create casts them to numbers and validates max >= min
createCommissionTier(min, max, pct, role, written) ==
    /\ Cardinality(tiers) < MaxTiers
    /\ tiers' = IF \/ pct = 0
                   \/ min < 0 \/ pct < 0 \/ pct > 100
                   \/ /\ max # Absent
                      /\ IF written = "decimals" THEN max[1] < min ELSE max[1] <= min
                   \/ (max # Absent /\ ~(max[1] >= min))
                THEN tiers
                ELSE tiers \cup {Tier(NextTierId, min, max, pct, role, TRUE)}
    /\ preview' = NoPreview
    /\ UNCHANGED <<users, sales, calls, notifications, payments, job, sweeps, bulk>>

\* deleteCommissionTier: the tier is kept and marked inactive
deleteCommissionTier(id) ==
    /\ \E t \in tiers : t.id = id /\ t.isActive
    /\ tiers' = {IF t.id = id THEN [t EXCEPT !.isActive = FALSE] ELSE t : t \in tiers}
    /\ preview' = NoPreview
    /\ UNCHANGED <<users, sales, calls, notifications, payments, job, sweeps, bulk>>

\* updateCommissionTier: the fields given (Absent: not given) are assigned,
\* then validated; a tier not found (404) or invalid (400) is not saved
updateCommissionTier(id, min, max, pct, isActive) ==
    /\ \E t \in tiers : t.id = id
    /\ LET tier == CHOOSE t \in tiers : t.id = id
           assigned == [tier EXCEPT
               !.minSalesValue = IF min # Absent THEN min[1] ELSE @,
               !.maxSalesValue = IF max # Absent THEN max ELSE @,
               !.commissionPercentage = IF pct # Absent THEN pct[1] ELSE @,
               !.isActive = IF isActive # Absent THEN isActive[1] ELSE @]
       IN tiers' = IF \/ assigned.minSalesValue < 0
                     \/ assigned.commissionPercentage < 0
                     \/ assigned.commissionPercentage > 100
                     \/ /\ assigned.maxSalesValue # Absent
                        /\ assigned.maxSalesValue[1] <= assigned.minSalesValue
                  THEN tiers
                  ELSE (tiers \ {tier}) \cup {assigned}
    /\ preview' = NoPreview
    /\ UNCHANGED <<users, sales, calls, notifications, payments, job, sweeps, bulk>>

(***************************************************************************)
(* Payment generation                                                      *)
(***************************************************************************)
\* most payment generation requests in a behaviour
MaxJobs == 2

\* startDate and endDate of the request body: absent, not a date, or a day
NoDate == [kind |-> "absent", d |-> 0]
BadDate == [kind |-> "bad", d |-> 0]
Day(d) == [kind |-> "date", d |-> d]
DateInputs == {NoDate, BadDate} \cup {Day(d) : d \in Dates}

JobResponse(status, influencerPayments, managerPayments, totalSales, totalCommissionValue) ==
    [status |-> status, influencerPayments |-> influencerPayments,
     managerPayments |-> managerPayments, totalSales |-> totalSales,
     totalCommissionValue |-> totalCommissionValue]
NoJobResponse == JobResponse(0, 0, 0, 0, 0)

\* no request yet; n counts the requests, the other fields are the locals of
\* generateCommissionPayments, and written (the _ids of the payments
\* created), reports (how each report went), salesAtFind (how many Sales
\* were stored when it queried them), endsBeforeStart (its body had two
\* dates, the end before the start), swept (how many Sales it updated) and
\* paymentsAtStart (how many payments were stored when it arrived) its
\* history
IdleJob ==
    [pc |-> "idle", n |-> 0, periodStart |-> 0, periodEnd |-> 0,
     pendingSales |-> <<>>, found |-> <<>>,
     influencerQueue |-> <<>>, managerQueue |-> <<>>, influencer |-> None,
     influencerPayments |-> 0, managerPayments |-> 0, totalCommissionValue |-> 0,
     response |-> NoJobResponse, written |-> {}, reports |-> {},
     salesAtFind |-> 0, endsBeforeStart |-> FALSE, swept |-> 0,
     paymentsAtStart |-> 0, uncalculated |-> {}]

\* a map that keeps one entry per sale instead of one per user
Repeated(ids) == ids

\* the _ids of a sequence of users in the order of their first appearance
RECURSIVE Distinct(_)
Distinct(ids) ==
    IF ids = <<>> THEN <<>>
    ELSE LET before == Distinct(SubSeq(ids, 1, Len(ids) - 1))
             last == ids[Len(ids)]
         IN IF \E k \in DOMAIN before : before[k] = last THEN before
            ELSE Append(before, last)

\* a set of _ids as the result of a query, in _id order
RECURSIVE Ordered(_)
Ordered(ids) ==
    IF ids = {} THEN <<>>
    ELSE LET last == CHOOSE i \in ids : \A j \in ids : j <= i
         IN Append(Ordered(ids \ {last}), last)

InPeriod(i, periodStart, periodEnd) ==
    sales[i].transactionDate >= periodStart /\ sales[i].transactionDate <= periodEnd

\* reduce((sum, x) => sum + x, 0)
RECURSIVE Sum(_)
Sum(amounts) ==
    IF amounts = <<>> THEN 0 ELSE amounts[1] + Sum(Tail(amounts))

\* a validation that does not compare the two dates
createCommissionPaymentsAnyPeriod(startDate, endDate) ==
    /\ job.pc \in {"idle", "done"}
    /\ job.n < MaxJobs
    /\ LET request == [IdleJob EXCEPT !.n = job.n + 1,
                                      !.endsBeforeStart = /\ startDate.kind = "date"
                                                          /\ endDate.kind = "date"
                                                          /\ endDate.d < startDate.d,
                                      !.paymentsAtStart = Len(payments)]
           uncalculatedSales ==
               {i \in DOMAIN sales : /\ InPeriod(i, startDate.d, endDate.d)
                                     /\ ~sales[i].commissionCalculated}
       IN job' =
           IF \/ startDate.kind = "absent" \/ endDate.kind = "absent"
              \/ startDate.kind = "bad" \/ endDate.kind = "bad"
           THEN [request EXCEPT !.pc = "done",
                                !.response = JobResponse(400, 0, 0, 0, 0)]
           ELSE [request EXCEPT !.periodStart = startDate.d, !.periodEnd = endDate.d,
                                !.uncalculated = uncalculatedSales,
                                !.pc = IF uncalculatedSales # {} THEN "pending" ELSE "find"]
    /\ UNCHANGED <<users, tiers, sales, calls, notifications, preview, payments, sweeps, bulk>>

\* createCommissionPayments: the validation of the request, then the count
\* of uncalculated sales of the period in generateCommissionPayments
createCommissionPayments(startDate, endDate) ==
    /\ job.pc \in {"idle", "done"}
    /\ job.n < MaxJobs
    /\ LET request == [IdleJob EXCEPT !.n = job.n + 1,
                                      !.endsBeforeStart = /\ startDate.kind = "date"
                                                          /\ endDate.kind = "date"
                                                          /\ endDate.d < startDate.d,
                                      !.paymentsAtStart = Len(payments)]
           uncalculatedSales ==
               {i \in DOMAIN sales : /\ InPeriod(i, startDate.d, endDate.d)
                                     /\ ~sales[i].commissionCalculated}
       IN job' =
           IF \/ startDate.kind = "absent" \/ endDate.kind = "absent"
              \/ startDate.kind = "bad" \/ endDate.kind = "bad"
              \/ endDate.d < startDate.d
           THEN [request EXCEPT !.pc = "done",
                                !.response = JobResponse(400, 0, 0, 0, 0)]
           ELSE [request EXCEPT !.periodStart = startDate.d, !.periodEnd = endDate.d,
                                !.uncalculated = uncalculatedSales,
                                !.pc = IF uncalculatedSales # {} THEN "pending" ELSE "find"]
    /\ UNCHANGED <<users, tiers, sales, calls, notifications, preview, payments, sweeps, bulk>>

\* a generation that goes on to its grouping without the sweep
FindPendingSalesSkipped ==
    /\ job.pc = "pending"
    /\ job' = [job EXCEPT !.pc = "find"]
    /\ UNCHANGED <<users, tiers, sales, calls, notifications, preview, payments, sweeps, bulk>>

\* processPendingCommissions: Sale.find({ commissionCalculated: false })
FindPendingSales ==
    LET pendingSales == Ordered({i \in DOMAIN sales : ~sales[i].commissionCalculated})
    IN
    /\ job.pc = "pending"
    /\ job' = [job EXCEPT !.pendingSales = pendingSales,
                          !.pc = IF pendingSales = <<>> THEN "find" ELSE "sweep"]
    /\ UNCHANGED <<users, tiers, sales, calls, notifications, preview, payments, sweeps, bulk>>

\* processPendingCommissions, one turn of its loop: the two commissions of a
\* sale and Sale.findByIdAndUpdate
ProcessPendingSale ==
    LET id == job.pendingSales[1]
        sale == sales[id]
    IN
    /\ job.pc = "sweep"
    /\ \E i \in calculateCommissionForSale(tiers, sale.saleValue, "influencer"),
          m \in calculateCommissionForSale(tiers, sale.saleValue, "manager") :
           sales' = [sales EXCEPT ![id] =
               [sale EXCEPT !.commissionCalculated = TRUE,
                            !.influencerCommissionEarned = i.commission,
                            !.managerCommissionEarned =
                                IF sale.manager # None THEN m.commission ELSE 0]]
    /\ job' = [job EXCEPT !.pendingSales = Tail(job.pendingSales),
                          !.swept = job.swept + 1,
                          !.pc = IF Tail(job.pendingSales) = <<>> THEN "find" ELSE "sweep"]
    /\ UNCHANGED <<users, tiers, calls, notifications, preview, payments, sweeps, bulk>>

\* generateCommissionPayments: the calculated sales of the period, populated,
\* and the two maps; a reference to a deleted user populates as null
FindSales ==
    LET found == Ordered({i \in DOMAIN sales :
                             /\ InPeriod(i, job.periodStart, job.periodEnd)
                             /\ sales[i].commissionCalculated})
        Populated(id) == IF id # None /\ users[id].exists THEN id ELSE None
        influencers == [k \in DOMAIN found |-> Populated(sales[found[k]].influencer)]
        managers == [k \in DOMAIN found |-> Populated(sales[found[k]].manager)]
    IN
    /\ job.pc = "find"
    /\ job' = [job EXCEPT !.found = found, !.salesAtFind = Len(sales),
                          !.influencerQueue = SelectSeq(Distinct(influencers), LAMBDA u : u # None),
                          !.managerQueue = SelectSeq(Distinct(managers), LAMBDA u : u # None),
                          !.pc = "payments"]
    /\ UNCHANGED <<users, tiers, sales, calls, notifications, preview, payments, sweeps, bulk>>

\* the sales of job.found of a user in a role
SalesOf(user, role) ==
    SelectSeq(job.found,
              LAMBDA i : IF role = "influencer" THEN sales[i].influencer = user
                         ELSE sales[i].manager = user)

\* a document that sums the commission field of the other role
NewPaymentOtherRole(user, role) ==
    LET userSales == SalesOf(user, role) IN
       [user |-> user, roleAtPayment |-> role,
        sales |-> {userSales[k] : k \in DOMAIN userSales},
        totalSalesValue |-> Sum([k \in DOMAIN userSales |-> sales[userSales[k]].saleValue]),
        commissionEarned |->
            Sum([k \in DOMAIN userSales |->
                    IF role = "manager"
                    THEN sales[userSales[k]].influencerCommissionEarned
                    ELSE sales[userSales[k]].managerCommissionEarned]),
        paymentPeriodStart |-> job.periodStart, paymentPeriodEnd |-> job.periodEnd,
        status |-> "pending", paymentDate |-> 0, transactionId |-> None]

\* the document of CommissionPayment.create
NewPayment(user, role) ==
    LET userSales == SalesOf(user, role) IN
       [user |-> user, roleAtPayment |-> role,
        sales |-> {userSales[k] : k \in DOMAIN userSales},
        totalSalesValue |-> Sum([k \in DOMAIN userSales |-> sales[userSales[k]].saleValue]),
        commissionEarned |->
            Sum([k \in DOMAIN userSales |->
                    IF role = "influencer"
                    THEN sales[userSales[k]].influencerCommissionEarned
                    ELSE sales[userSales[k]].managerCommissionEarned]),
        paymentPeriodStart |-> job.periodStart, paymentPeriodEnd |-> job.periodEnd,
        status |-> "pending", paymentDate |-> 0, transactionId |-> None]

\* a turn of the influencer loop that goes to its notification with the
\* payment not stored
CreateInfluencerPaymentUnstored ==
    LET influencerId == job.influencerQueue[1]
        influencer == FindUserById(influencerId)
        next == [job EXCEPT !.influencerQueue = Tail(job.influencerQueue)]
    IN
    /\ job.pc = "payments"
    /\ job.influencerQueue # <<>>
    /\ job' = IF influencer # None /\ users[influencer].whatsappNumber
              THEN [next EXCEPT !.pc = "report", !.influencer = influencerId]
              ELSE next
    /\ UNCHANGED <<users, tiers, sales, calls, notifications, preview, payments, sweeps, bulk>>

\* one turn of the influencer loop up to its notification
CreateInfluencerPayment ==
    LET influencerId == job.influencerQueue[1]
        influencer == FindUserById(influencerId)
        payment == NewPayment(influencerId, "influencer")
        next == [job EXCEPT !.influencerQueue = Tail(job.influencerQueue)]
        paid == [next EXCEPT !.influencerPayments = job.influencerPayments + 1,
                             !.totalCommissionValue =
                                 job.totalCommissionValue + payment.commissionEarned,
                             !.written = job.written \cup {Len(payments) + 1}]
    IN
    /\ job.pc = "payments"
    /\ job.influencerQueue # <<>>
    /\ IF influencer = None
       THEN job' = next /\ UNCHANGED payments
       ELSE /\ payments' = Append(payments, payment)
            /\ job' = IF users[influencer].whatsappNumber
                      THEN [paid EXCEPT !.pc = "report", !.influencer = influencerId]
                      ELSE paid
    /\ UNCHANGED <<users, tiers, sales, calls, notifications, preview, sweeps, bulk>>

\* the notification of the influencer loop, inside its try block: the
\* manager's token (the query may fail) and sendSalesReport
SendReport ==
    LET influencer == job.influencer
        manager == FindUserById(users[influencer].manager)
        Reported(how) ==
            [job EXCEPT !.pc = "payments", !.influencer = None,
                        !.reports = job.reports \cup
                            {[to |-> influencer, payment |-> Len(payments),
                              doc |-> payments[Len(payments)], how |-> how]}]
    IN
    /\ job.pc = "report"
    /\ \E queryFails \in BOOLEAN, sent \in BOOLEAN :
           IF users[influencer].manager = None
           THEN job' = Reported("noManager") /\ UNCHANGED notifications
           ELSE IF queryFails
           THEN job' = Reported("lookupFailed") /\ UNCHANGED notifications
           ELSE IF manager = None \/ ~users[manager].tokenWhats
           THEN job' = Reported("noCredential") /\ UNCHANGED notifications
           ELSE /\ job' = Reported(IF sent THEN "sent" ELSE "sendError")
                /\ notifications' = notifications \cup
                       {[kind |-> "report", by |-> "job", about |-> Len(payments),
                         to |-> influencer, sent |-> sent]}
    /\ UNCHANGED <<users, tiers, sales, calls, preview, payments, sweeps, bulk>>

\* one turn of the manager loop
CreateManagerPayment ==
    LET managerId == job.managerQueue[1]
        manager == FindUserById(managerId)
        payment == NewPayment(managerId, "manager")
        next == [job EXCEPT !.managerQueue = Tail(job.managerQueue)]
    IN
    /\ job.pc = "payments"
    /\ job.influencerQueue = <<>>
    /\ job.managerQueue # <<>>
    /\ IF manager = None
       THEN job' = next /\ UNCHANGED payments
       ELSE /\ payments' = Append(payments, payment)
            /\ job' = [next EXCEPT !.managerPayments = job.managerPayments + 1,
                                   !.totalCommissionValue =
                                       job.totalCommissionValue + payment.commissionEarned,
                                   !.written = job.written \cup {Len(payments) + 1}]
    /\ UNCHANGED <<users, tiers, sales, calls, notifications, preview, sweeps, bulk>>

\* the result of generateCommissionPayments and the 201 of the controller
RespondGenerated ==
    /\ job.pc = "payments"
    /\ job.influencerQueue = <<>>
    /\ job.managerQueue = <<>>
    /\ job' = [job EXCEPT !.pc = "done",
                          !.response = JobResponse(201, job.influencerPayments,
                                                   job.managerPayments, Len(job.found),
                                                   job.totalCommissionValue)]
    /\ UNCHANGED <<users, tiers, sales, calls, notifications, preview, payments, sweeps, bulk>>

\* updatePaymentStatus: a body without a status or with one outside the
\* enum (400) and an id of no payment (404) change nothing; otherwise the
\* status is assigned, and with "paid" the payment date and, if given, the
\* transaction id (paymentDate 0: not set)
\* a status update that also clears the amount of a payment it fails
updatePaymentStatusVoiding(id, status, transactionId) ==
    /\ payments' =
           IF status = Absent \/ status[1] \notin {"pending", "paid", "failed"}
           THEN payments
           ELSE IF id \notin DOMAIN payments THEN payments
           ELSE [payments EXCEPT ![id] =
                   IF status[1] = "failed"
                   THEN [@ EXCEPT !.status = "failed", !.commissionEarned = 0]
                   ELSE [@ EXCEPT !.status = status[1]]]
    /\ UNCHANGED <<users, tiers, sales, calls, notifications, preview, job, sweeps, bulk>>

updatePaymentStatus(id, status, transactionId) ==
    /\ payments' =
           IF status = Absent \/ status[1] \notin {"pending", "paid", "failed"}
           THEN payments
           ELSE IF id \notin DOMAIN payments THEN payments
           ELSE [payments EXCEPT ![id] =
                   IF status[1] = "paid"
                   THEN [@ EXCEPT !.status = "paid", !.paymentDate = Now,
                                  !.transactionId = IF transactionId # Absent
                                                    THEN transactionId[1] ELSE @]
                   ELSE [@ EXCEPT !.status = status[1]]]
    /\ UNCHANGED <<users, tiers, sales, calls, notifications, preview, job, sweeps, bulk>>

(***************************************************************************)
(* The pending commission sweep on its own                                 *)
(***************************************************************************)
Sweeps == {"s1", "s2"}

\* res.json of processCommissions (status 0: none yet)
SweepResponse(status, processedSales, totalInfluencerCommission, totalManagerCommission) ==
    [status |-> status, processedSales |-> processedSales,
     totalInfluencerCommission |-> totalInfluencerCommission,
     totalManagerCommission |-> totalManagerCommission]

\* no request yet; the fields are the locals of processPendingCommissions,
\* and found (how many sales its query returned), afterDone (a sweep had
\* been answered when it began) and salesAtStart its history
IdleSweep ==
    [pc |-> "idle", pendingSales |-> <<>>, totalProcessed |-> 0,
     totalInfluencerCommission |-> 0, totalManagerCommission |-> 0,
     response |-> SweepResponse(0, 0, 0, 0),
     found |-> 0, afterDone |-> FALSE, salesAtStart |-> <<>>]

\* processCommissions up to the query of processPendingCommissions;
\* requests are numbered in the order of their arrival
processCommissions(p) ==
    LET pendingSales == Ordered({i \in DOMAIN sales : ~sales[i].commissionCalculated})
    IN
    /\ sweeps[p].pc = "idle"
    /\ p = "s2" => sweeps["s1"].pc # "idle"
    /\ sweeps' = [sweeps EXCEPT ![p] =
           [IdleSweep EXCEPT !.pc = "sweep", !.pendingSales = pendingSales,
                             !.found = Len(pendingSales),
                             !.afterDone = \E q \in Sweeps : sweeps[q].pc = "done",
                             !.salesAtStart = sales]]
    /\ UNCHANGED <<users, tiers, sales, calls, notifications, preview, payments, job, bulk>>

\* a turn of the loop whose update leaves commissionCalculated as it was
SweepSaleUnmarked(p) ==
    LET sweep == sweeps[p] IN
    /\ sweep.pc = "sweep"
    /\ sweep.pendingSales # <<>>
    /\ sweeps' = [sweeps EXCEPT ![p] =
           [sweep EXCEPT !.pendingSales = Tail(sweep.pendingSales),
                         !.totalProcessed = sweep.totalProcessed + 1]]
    /\ UNCHANGED <<users, tiers, sales, calls, notifications, preview, payments, job, bulk>>

\* one turn of the loop of processPendingCommissions: the two commissions of
\* a sale and Sale.findByIdAndUpdate
SweepSale(p) ==
    LET sweep == sweeps[p]
        id == sweep.pendingSales[1]
        sale == sales[id]
    IN
    /\ sweep.pc = "sweep"
    /\ sweep.pendingSales # <<>>
    /\ \E i \in calculateCommissionForSale(tiers, sale.saleValue, "influencer"),
          m \in calculateCommissionForSale(tiers, sale.saleValue, "manager") :
           LET managerCommission == IF sale.manager # None THEN m.commission ELSE 0 IN
           /\ sales' = [sales EXCEPT ![id] =
                  [sale EXCEPT !.commissionCalculated = TRUE,
                               !.influencerCommissionEarned = i.commission,
                               !.managerCommissionEarned = managerCommission]]
           /\ sweeps' = [sweeps EXCEPT ![p] =
                  [sweep EXCEPT !.pendingSales = Tail(sweep.pendingSales),
                                !.totalProcessed = sweep.totalProcessed + 1,
                                !.totalInfluencerCommission =
                                    sweep.totalInfluencerCommission + i.commission,
                                !.totalManagerCommission =
                                    sweep.totalManagerCommission + managerCommission]]
    /\ UNCHANGED <<users, tiers, calls, notifications, preview, payments, job, bulk>>

\* the result of processPendingCommissions and res.json of processCommissions
RespondProcessed(p) ==
    LET sweep == sweeps[p] IN
    /\ sweep.pc = "sweep"
    /\ sweep.pendingSales = <<>>
    /\ sweeps' = [sweeps EXCEPT ![p] =
           [sweep EXCEPT !.pc = "done",
                         !.response = SweepResponse(200, sweep.totalProcessed,
                                                    sweep.totalInfluencerCommission,
                                                    sweep.totalManagerCommission)]]
    /\ UNCHANGED <<users, tiers, sales, calls, notifications, preview, payments, job, bulk>>

(***************************************************************************)
(* The bulk replacement of a role's tiers                                  *)
(***************************************************************************)
\* most bulk requests of one client in a behaviour, and most entries of a
\* request
MaxBulks == 1
MaxEntries == 2

\* a value of the body that is not a number
NotNumber == <<0, 0>>

BulkEntry(min, max, pct) ==
    [minSalesValue |-> min, maxSalesValue |-> max, commissionPercentage |-> pct]

\* the entries of a body: two that pass, three the controller rejects, one
\* only the schema rejects
BulkEntries ==
    {BulkEntry(Some(0), Some(2), Some(10)), BulkEntry(Some(2), Absent, Some(20)),
     BulkEntry(Absent, Absent, Some(10)), BulkEntry(NotNumber, Absent, Some(10)),
     BulkEntry(Some(2), Some(2), Some(10)),
     BulkEntry(Some(0), Absent, Some(110))}

BulkLists == UNION {[1..n -> BulkEntries] : n \in 0..MaxEntries}

\* req.body: appliesTo (None: not provided) and tiers, an array or not
BulkBodies ==
    [appliesTo : RoleNames \cup {None}, isArray : {TRUE}, tiers : BulkLists]
        \cup [appliesTo : RoleNames, isArray : {FALSE}, tiers : {<<>>}]

\* the bulk requests that may be under way at once
Bulks == {"b1", "b2"}

\* no request yet; n counts the requests, before is the collection when the
\* request arrived, deleted the documents its transaction has deleted,
\* staged the collection as its transaction sees it, status its answer (0:
\* none yet) and after the collection when it was answered
IdleBulk ==
    [pc |-> "idle", n |-> 0, appliesTo |-> None, tiers |-> <<>>,
     before |-> {}, deleted |-> {}, staged |-> {}, status |-> 0, after |-> {}]

\* the basic validation of each entry in saveCommissionTiersBulk
EntryRejected(tier) ==
    \/ tier.minSalesValue = Absent \/ tier.commissionPercentage = Absent
    \/ Len(tier.minSalesValue) # 1 \/ Len(tier.commissionPercentage) # 1
    \/ (tier.maxSalesValue # Absent /\ Len(tier.maxSalesValue) # 1)
    \/ (tier.maxSalesValue # Absent /\ tier.maxSalesValue[1] <= tier.minSalesValue[1])

\* the validation of a CommissionTier document by its schema
SchemaRejected(tier) ==
    \/ tier.minSalesValue[1] < 0
    \/ (tier.maxSalesValue # Absent /\ tier.maxSalesValue[1] < 0)
    \/ tier.commissionPercentage[1] < 0 \/ tier.commissionPercentage[1] > 100
    \/ (tier.maxSalesValue # Absent /\ tier.maxSalesValue[1] < tier.minSalesValue[1])

\* the answer of a bulk request, the transaction aborted or never begun
BulkFailed(request, status) ==
    [request EXCEPT !.pc = "done", !.status = status, !.after = tiers]

\* saveCommissionTiersBulk up to session.startTransaction; requests are
\* interchangeable, so they are numbered in the order of their arrival
saveCommissionTiersBulk(b, body) ==
    /\ bulk[b].pc \in {"idle", "done"}
    /\ b = "b2" => bulk["b1"].pc # "idle"
    /\ bulk[b].n < MaxBulks
    /\ LET request == [IdleBulk EXCEPT !.n = bulk[b].n + 1, !.appliesTo = body.appliesTo,
                                      !.tiers = body.tiers, !.before = tiers,
                                      !.staged = tiers]
       IN bulk' = [bulk EXCEPT ![b] =
           IF \/ body.appliesTo \notin RoleNames
              \/ ~body.isArray
              \/ \E k \in DOMAIN body.tiers : EntryRejected(body.tiers[k])
           THEN BulkFailed(request, 400)
           ELSE [request EXCEPT !.pc = "delete"]]
    /\ UNCHANGED <<users, tiers, sales, calls, notifications, preview, payments, job, sweeps>>

\* a deleteMany outside the transaction
BulkDeleteManyUnstaged(b) ==
    /\ bulk[b].pc = "delete"
    /\ \E fails \in BOOLEAN :
           IF fails
           THEN bulk' = [bulk EXCEPT ![b] = BulkFailed(bulk[b], 500)] /\ UNCHANGED tiers
           ELSE /\ tiers' = {t \in tiers : t.appliesTo # bulk[b].appliesTo}
                /\ bulk' = [bulk EXCEPT ![b] = [bulk[b] EXCEPT !.pc = "insert",
                               !.staged = {t \in tiers : t.appliesTo # bulk[b].appliesTo}]]
    /\ UNCHANGED <<users, sales, calls, notifications, preview, payments, job, sweeps>>

\* a deleteMany that spares the inactive tiers
BulkDeleteManyActive(b) ==
    LET matched == {t \in tiers : t.appliesTo = bulk[b].appliesTo /\ t.isActive} IN
    /\ bulk[b].pc = "delete"
    /\ \E fails \in BOOLEAN :
           bulk' = [bulk EXCEPT ![b] =
                       IF fails THEN BulkFailed(bulk[b], 500)
                       ELSE [bulk[b] EXCEPT !.pc = "insert", !.deleted = matched,
                                            !.staged = tiers \ matched]]
    /\ UNCHANGED <<users, tiers, sales, calls, notifications, preview, payments, job, sweeps>>

\* CommissionTier.deleteMany({ appliesTo }, { session }): the first
\* operation of the transaction, which fixes its snapshot.  It fails on an
\* error of the store or on a write conflict with a document that another
\* open transaction has deleted, and the catch block aborts the transaction
BulkDeleteMany(b) ==
    LET matched == {t \in tiers : t.appliesTo = bulk[b].appliesTo}
        conflict == \E x \in Bulks \ {b} :
                        /\ bulk[x].pc \in {"insert", "commit"}
                        /\ bulk[x].deleted \cap matched # {}
    IN
    /\ bulk[b].pc = "delete"
    /\ \E fails \in BOOLEAN :
           bulk' = [bulk EXCEPT ![b] =
                       IF fails \/ conflict THEN BulkFailed(bulk[b], 500)
                       ELSE [bulk[b] EXCEPT !.pc = "insert", !.deleted = matched,
                                            !.staged = tiers \ matched]]
    /\ UNCHANGED <<users, tiers, sales, calls, notifications, preview, payments, job, sweeps>>

\* CommissionTier.insertMany(newTiersData, { session }): every document is
\* validated before any is sent; the insert may fail; the _ids are new
BulkInsertMany(b) ==
    LET known == tiers \cup bulk[b].before \cup UNION {bulk[x].staged : x \in Bulks}
        base == IF known = {} THEN 0
                ELSE CHOOSE n \in {t.id : t \in known} : \A t \in known : t.id <= n
        newTiersData ==
            {Tier(base + k, bulk[b].tiers[k].minSalesValue[1], bulk[b].tiers[k].maxSalesValue,
                  bulk[b].tiers[k].commissionPercentage[1], bulk[b].appliesTo, TRUE) :
                k \in DOMAIN bulk[b].tiers}
    IN
    /\ bulk[b].pc = "insert"
    /\ \E fails \in BOOLEAN :
           bulk' = [bulk EXCEPT ![b] =
                       IF fails \/ \E k \in DOMAIN bulk[b].tiers : SchemaRejected(bulk[b].tiers[k])
                       THEN BulkFailed(bulk[b], 500)
                       ELSE [bulk[b] EXCEPT !.pc = "commit",
                                            !.staged = bulk[b].staged \cup newTiersData]]
    /\ UNCHANGED <<users, tiers, sales, calls, notifications, preview, payments, job, sweeps>>

\* session.commitTransaction: the deletions and insertions of the
\* transaction reach the stored collection, or the commit fails and none does
BulkCommit(b) ==
    LET inserted == {t \in bulk[b].staged : t.appliesTo = bulk[b].appliesTo}
        stored == (tiers \ bulk[b].deleted) \cup inserted
    IN
    /\ bulk[b].pc = "commit"
    /\ \E fails \in BOOLEAN :
           IF fails
           THEN /\ bulk' = [bulk EXCEPT ![b] = BulkFailed(bulk[b], 500)]
                /\ UNCHANGED <<tiers, preview>>
           ELSE /\ tiers' = stored
                /\ preview' = NoPreview
                /\ bulk' = [bulk EXCEPT ![b] = [bulk[b] EXCEPT !.pc = "done", !.status = 200,
                                                               !.after = stored]]
    /\ UNCHANGED <<users, sales, calls, notifications, payments, job, sweeps>>

(***************************************************************************)
(* User administration                                                     *)
(***************************************************************************)
\* User.findByIdAndUpdate(id, { $pull / $addToSet: { influencers } }) on a
\* directory; no document of that id: nothing happens
Pull(directory, id, influencer) ==
    IF id \in UserIds /\ directory[id].exists
    THEN [directory EXCEPT ![id].influencers = @ \ {influencer}]
    ELSE directory
AddToSet(directory, id, influencer) ==
    IF id \in UserIds /\ directory[id].exists
    THEN [directory EXCEPT ![id].influencers = @ \cup {influencer}]
    ELSE directory

\* an update that also rewrites the manager of the influencer's Sales
updateUserAndSales(id, managerId) ==
    /\ users[id].exists
    /\ users[id].role = "influencer"
    /\ managerId # Absent
    /\ users' = [AddToSet(Pull(users, users[id].manager, id), managerId[1], id)
                    EXCEPT ![id].manager = managerId[1]]
    /\ sales' = [i \in DOMAIN sales |->
                    IF sales[i].influencer = id
                    THEN [sales[i] EXCEPT !.manager = managerId[1]] ELSE sales[i]]
    /\ UNCHANGED <<tiers, calls, notifications, preview, payments, job, sweeps, bulk>>

\* updateUser by an admin with a body of managerId alone (Absent: not
\* given): the lists of the old and the new manager, then user.save(),
\* which rejects an influencer without a manager
updateUser(id, managerId) ==
    LET user == users[id]
        oldManagerId == user.manager
    IN
    /\ user.exists
    /\ users' =
           IF user.role # "influencer" THEN users
           ELSE IF managerId # Absent /\ managerId[1] # oldManagerId
           THEN [AddToSet(Pull(users, oldManagerId, id), managerId[1], id)
                    EXCEPT ![id].manager = managerId[1]]
           ELSE IF managerId = Absent /\ oldManagerId # None
           THEN Pull(users, oldManagerId, id)
           ELSE users
    /\ UNCHANGED <<tiers, sales, calls, notifications, preview, payments, job, sweeps, bulk>>

\* deleteUser: the document, then the manager's list of a deleted
\* influencer or the manager field of a deleted manager's influencers
deleteUser(id) ==
    LET user == users[id]
        deleted == [users EXCEPT ![id].exists = FALSE]
    IN
    /\ user.exists
    /\ users' =
           IF user.role = "influencer" /\ user.manager # None
           THEN Pull(deleted, user.manager, id)
           ELSE IF user.role = "manager" /\ user.influencers # {}
           THEN [u \in UserIds |->
                    IF u \in user.influencers /\ deleted[u].exists
                    THEN [deleted[u] EXCEPT !.manager = None] ELSE deleted[u]]
           ELSE deleted
    /\ UNCHANGED <<tiers, sales, calls, notifications, preview, payments, job, sweeps, bulk>>

(***************************************************************************)
(* The system: deliveries racing with each other and with the tier table   *)
(***************************************************************************)
User(role, manager, couponCode, whatsappNumber, tokenWhats) ==
    [exists |-> TRUE, role |-> role, manager |-> manager, influencers |-> {},
     couponCode |-> couponCode, whatsappNumber |-> whatsappNumber,
     tokenWhats |-> tokenWhats]

\* two managers and one influencer with coupon "a"
SomeUsers(manager, whatsapp, token) ==
    [u \in UserIds |->
        CASE u = "m1" -> [User("manager", None, None, FALSE, token)
                             EXCEPT !.influencers = IF manager = "m1" THEN {"i1"} ELSE {}]
          [] u = "m2" -> User("manager", None, None, FALSE, TRUE)
          [] OTHER -> User("influencer", manager, "a", whatsapp, FALSE)]

\* the influencer has the first manager or, that manager's predecessor
\* deleted, none; has a WhatsApp number or not; the manager a token or not
Directories ==
    {SomeUsers("m1", TRUE, TRUE), SomeUsers("m1", TRUE, FALSE),
     SomeUsers("m1", FALSE, TRUE), SomeUsers(None, TRUE, TRUE)}

\* an influencer bracket from 2 up and a manager bracket from 0 up
SomeTiers ==
    {Tier(1, 2, Absent, 20, "influencer", TRUE), Tier(2, 0, Absent, 10, "manager", TRUE)}

Init ==
    /\ users \in Directories
    /\ tiers = SomeTiers
    /\ sales = <<>>
    /\ calls = [c \in Calls |-> IdleCall]
    /\ notifications = {}
    /\ preview = NoPreview
    /\ payments = <<>>
    /\ job = IdleJob
    /\ sweeps = [p \in Sweeps |-> IdleSweep]
    /\ bulk = [b \in Bulks |-> IdleBulk]

Ingestion(c) ==
    \/ FindInfluencer(c)
    \/ FindManager(c)
    \/ CalcInfluencerCommission(c)
    \/ CalcManagerCommission(c)
    \/ CreateSale(c)
    \/ NotifyLookup(c)
    \/ SendNotification(c)

Next ==
    \/ \E c \in Calls : processShopifyWebhook(c, PlainShopifyBodies)
    \/ \E c \in Calls : processCartPandaWebhook(c, PlainCartPandaBodies)
    \/ \E c \in Calls : processSaleWebhook(c, PlainGenericBodies)
    \/ \E c \in Calls : Ingestion(c)
    \/ \E t \in tiers : deleteCommissionTier(t.id)

Spec == Init /\ [][Next]_vars

(***************************************************************************)
(* Intake: deliveries of every payload shape, one after the other          *)
(***************************************************************************)
\* no other request is being handled
Alone(c) == \A d \in Calls \ {c} : calls[d].pc \in {"idle", "done"}

NextIntake ==
    \/ \E c \in Calls : Alone(c) /\ processShopifyWebhook(c, ShopifyBodies)
    \/ \E c \in Calls : Alone(c) /\ processCartPandaWebhook(c, CartPandaBodies)
    \/ \E c \in Calls : Alone(c) /\ processSaleWebhook(c, GenericBodies)
    \/ \E c \in Calls : Ingestion(c)

InitIntake ==
    /\ users = SomeUsers("m1", TRUE, TRUE)
    /\ tiers = SomeTiers
    /\ sales = <<>>
    /\ calls = [c \in Calls |-> IdleCall]
    /\ notifications = {}
    /\ preview = NoPreview
    /\ payments = <<>>
    /\ job = IdleJob
    /\ sweeps = [p \in Sweeps |-> IdleSweep]
    /\ bulk = [b \in Bulks |-> IdleBulk]

SpecIntake == InitIntake /\ [][NextIntake]_vars

(***************************************************************************)
(* Commission resolution on its own, over every small tier table           *)
(***************************************************************************)
\* ResolveCommission(role, saleValue), as the handlers and the sweep call it
ResolveCommission(role, saleValue) ==
    /\ \E r \in calculateCommission(tiers, saleValue, role) :
           preview' = [role |-> role, saleValue |-> saleValue, commission |-> r.commission]
    /\ UNCHANGED <<users, tiers, sales, calls, notifications, payments, job, sweeps, bulk>>

InitResolve ==
    /\ users = SomeUsers("m1", TRUE, TRUE)
    /\ tiers = {}
    /\ sales = <<>>
    /\ calls = [c \in Calls |-> IdleCall]
    /\ notifications = {}
    /\ preview = NoPreview
    /\ payments = <<>>
    /\ job = IdleJob
    /\ sweeps = [p \in Sweeps |-> IdleSweep]
    /\ bulk = [b \in Bulks |-> IdleBulk]

NextResolve ==
    \/ \E role \in RoleNames, saleValue \in 0..MaxValue : ResolveCommission(role, saleValue)
    \/ \E min \in TierMins, max \in TierMaxes, pct \in TierPcts, role \in RoleNames,
          written \in {"numbers", "strings", "decimals"} :
           createCommissionTier(min, max, pct, role, written)
    \/ \E t \in tiers : deleteCommissionTier(t.id)

SpecResolve == InitResolve /\ [][NextResolve]_vars


(***************************************************************************)
(* Payments: a delivery racing with payment generation                     *)
(***************************************************************************)
\* a Sale entered outside the webhook path, as the schema's defaults leave it
LegacySale ==
    [influencer |-> "i1", manager |-> "m1",
     orderId |-> "0", saleValue |-> MaxValue,
     commissionCalculated |-> FALSE,
     influencerCommissionEarned |-> 0,
     managerCommissionEarned |-> 0,
     couponCodeUsed |-> "a",
     transactionDate |-> 1,
     processedViaWebhook |-> FALSE,
     createdBy |-> None]

Generation ==
    \/ FindPendingSales
    \/ ProcessPendingSale
    \/ FindSales
    \/ CreateInfluencerPayment
    \/ SendReport
    \/ CreateManagerPayment
    \/ RespondGenerated

InitPayments ==
    /\ users \in Directories
    /\ tiers = SomeTiers
    /\ sales \in {<<>>, <<LegacySale>>}
    /\ calls = [c \in Calls |-> IdleCall]
    /\ notifications = {}
    /\ preview = NoPreview
    /\ payments = <<>>
    /\ job = IdleJob
    /\ sweeps = [p \in Sweeps |-> IdleSweep]
    /\ bulk = [b \in Bulks |-> IdleBulk]

\* the deliveries of one order with the influencer's coupon
OneOrder(bodies) ==
    {b \in bodies : b.ids[1] = IdNum(1) /\ CarriedCoupon(b.discount_codes) = "a"}
OneSale(bodies) == {b \in bodies : b.orderId = IdStr("1") /\ b.couponCode = "a"}

NextPayments ==
    \/ processShopifyWebhook("c1", OneOrder(PlainShopifyBodies))
    \/ processCartPandaWebhook("c1", OneOrder(PlainCartPandaBodies))
    \/ processSaleWebhook("c1", OneSale(PlainGenericBodies))
    \/ Ingestion("c1")
    \/ \E startDate \in DateInputs, endDate \in DateInputs :
           createCommissionPayments(startDate, endDate)
    \/ Generation

SpecPayments == InitPayments /\ [][NextPayments]_vars

(***************************************************************************)
(* Sweeps: sweeps racing with each other and with the tier table           *)
(***************************************************************************)
\* a second Sale entered outside the webhook path, of an influencer without
\* a manager
UnmanagedSale ==
    [LegacySale EXCEPT !.manager = None, !.orderId = "00", !.saleValue = MaxValue - 1,
                       !.transactionDate = MaxDate]

Sweep(p) ==
    \/ processCommissions(p)
    \/ SweepSale(p)
    \/ RespondProcessed(p)

InitSweeps ==
    /\ users = SomeUsers("m1", TRUE, TRUE)
    /\ tiers = SomeTiers
    /\ sales \in {<<>>, <<LegacySale>>, <<LegacySale, UnmanagedSale>>}
    /\ calls = [c \in Calls |-> IdleCall]
    /\ notifications = {}
    /\ preview = NoPreview
    /\ payments = <<>>
    /\ job = IdleJob
    /\ sweeps = [p \in Sweeps |-> IdleSweep]
    /\ bulk = [b \in Bulks |-> IdleBulk]

NextSweeps ==
    \/ \E p \in Sweeps : Sweep(p)
    \/ \E t \in tiers : deleteCommissionTier(t.id)
    \/ \E t \in tiers, pct \in TierPcts \ {0} :
           updateCommissionTier(t.id, Absent, Absent, Some(pct), Absent)

SpecSweeps == InitSweeps /\ [][NextSweeps]_vars

(***************************************************************************)
(* Tiers: single-tier requests, then bulk replacements                     *)
(***************************************************************************)

InitTiers ==
    /\ users = SomeUsers("m1", TRUE, TRUE)
    /\ tiers \in {{}, SomeTiers}
    /\ sales = <<>>
    /\ calls = [c \in Calls |-> IdleCall]
    /\ notifications = {}
    /\ preview = NoPreview
    /\ payments = <<>>
    /\ job = IdleJob
    /\ sweeps = [p \in Sweeps |-> IdleSweep]
    /\ bulk = [b \in Bulks |-> IdleBulk]

NextTiers ==
    \/ \E body \in BulkBodies : saveCommissionTiersBulk("b1", body)
    \/ BulkDeleteMany("b1")
    \/ BulkInsertMany("b1")
    \/ BulkCommit("b1")
    \/ /\ bulk["b1"].pc = "idle"
       /\ \E t \in tiers : deleteCommissionTier(t.id)

SpecTiers == InitTiers /\ [][NextTiers]_vars

(***************************************************************************)
(* Replace: two bulk replacements at once                                  *)
(***************************************************************************)
NextReplace ==
    \/ \E b \in Bulks, body \in BulkBodies : saveCommissionTiersBulk(b, body)
    \/ \E b \in Bulks : BulkDeleteMany(b)
    \/ \E b \in Bulks : BulkInsertMany(b)
    \/ \E b \in Bulks : BulkCommit(b)

SpecReplace == InitTiers /\ [][NextReplace]_vars

(***************************************************************************)
(* Amounts: deliveries of any total, a sweep and re-priced tiers           *)
(***************************************************************************)
NextAmounts ==
    \/ \E c \in Calls :
           /\ Alone(c)
           /\ processShopifyWebhook(c,
                  {b \in ShopifyBodies :
                      /\ b.order /\ b.created_at = Some(1)
                      /\ b.ids \in {<<i, IdAbsent, IdAbsent>> : i \in PlainIds}
                      /\ b.totals[2] = TAbsent
                      /\ b.discount_codes = DArr(<<EObj("a")>>)})
    \/ \E c \in Calls : Ingestion(c)
    \/ Sweep("s1")
    \/ \E t \in tiers, pct \in {0 - 10, 100, 110} :
           updateCommissionTier(t.id, Absent, Absent, Some(pct), Absent)

SpecAmounts == InitPayments /\ [][NextAmounts]_vars

(***************************************************************************)
(* Status: payments generated, then settled                                *)
(***************************************************************************)
InitStatus ==
    /\ users = SomeUsers("m1", TRUE, TRUE)
    /\ tiers = SomeTiers
    /\ sales = <<LegacySale>>
    /\ calls = [c \in Calls |-> IdleCall]
    /\ notifications = {}
    /\ preview = NoPreview
    /\ payments = <<>>
    /\ job = IdleJob
    /\ sweeps = [p \in Sweeps |-> IdleSweep]
    /\ bulk = [b \in Bulks |-> IdleBulk]

NextStatus ==
    \/ \E startDate \in DateInputs, endDate \in DateInputs :
           createCommissionPayments(startDate, endDate)
    \/ Generation
    \/ \E id \in {1, Len(payments) + 1},
          status \in {Absent, Some("pending"), Some("paid"), Some("failed"), Some("done")},
          transactionId \in {Absent, Some("t1")} :
           updatePaymentStatus(id, status, transactionId)

SpecStatus == InitStatus /\ [][NextStatus]_vars

(***************************************************************************)
(* Users: deliveries of one influencer's orders between user requests      *)
(***************************************************************************)
\* the deliveries of the influencer's orders at the highest value
CouponOrders ==
    {b \in PlainShopifyBodies :
        b.discount_codes = DArr(<<EObj("a")>>) /\ b.totals[1] = TStr(MaxValue)}

InitUsers ==
    /\ users = SomeUsers("m1", TRUE, TRUE)
    /\ tiers = SomeTiers
    /\ sales = <<>>
    /\ calls = [c \in Calls |-> IdleCall]
    /\ notifications = {}
    /\ preview = NoPreview
    /\ payments = <<>>
    /\ job = IdleJob
    /\ sweeps = [p \in Sweeps |-> IdleSweep]
    /\ bulk = [b \in Bulks |-> IdleBulk]

NextUsers ==
    \/ \E c \in Calls : Alone(c) /\ processShopifyWebhook(c, CouponOrders)
    \/ \E c \in Calls : Ingestion(c)
    \/ /\ \A c \in Calls : calls[c].pc \in {"idle", "done"}
       /\ \E managerId \in {Absent, Some("m1"), Some("m2")} : updateUser("i1", managerId)
    \/ /\ \A c \in Calls : calls[c].pc \in {"idle", "done"}
       /\ \E id \in UserIds : deleteUser(id)

SpecUsers == InitUsers /\ [][NextUsers]_vars

(***************************************************************************)
(* Properties of ingestion                                                 *)
(***************************************************************************)
\* the Sale rows stored when request c arrived that carry its order id
StoredAtArrival(c) ==
    {i \in 1..calls[c].salesAtStart : sales[i].orderId = calls[c].given.orderId}
SalesCreatedBy(c) == {i \in DOMAIN sales : sales[i].createdBy = c}
NotificationsBy(c) == {n \in notifications : n.kind = "newSale" /\ n.by = c}
Answered(c) == calls[c].pc = "done"

C2_OrderIdUnique ==
    \A i, j \in DOMAIN sales : sales[i].orderId = sales[j].orderId => i = j

\* two deliveries of one order both passed the duplicate lookup, one stored
\* its Sale and the other's insert was refused
C2_Witness ==
    \E c, d \in Calls :
        /\ c # d /\ calls[c].conflict
        /\ SalesCreatedBy(d) # {}
        /\ calls[c].salesAtStart = 0 /\ calls[d].salesAtStart = 0

\* C3: a delivery whose insert is refused because a concurrent delivery
\* stored the same orderId first is answered AlreadyProcessed, not an error.
C3_ConflictIsAlreadyProcessed ==
    \A c \in Calls :
        Answered(c) /\ calls[c].conflict =>
            /\ calls[c].response.status = 200
            /\ calls[c].response.body = "already"

\* C9: an ingested Sale is stored, from its first state on, with
\* commissionCalculated true, the influencer commission of the tier resolved
\* for its value and, if it has a manager, the manager commission of the
\* manager tier resolved, else a manager commission of 0.
C9_SaleWrittenWhole ==
    \A i \in DOMAIN sales :
        sales[i].processedViaWebhook =>
            LET by == calls[sales[i].createdBy] IN
            /\ sales[i].commissionCalculated
            /\ sales[i].influencerCommissionEarned = sales[i].saleValue * by.infPct
            /\ sales[i].managerCommissionEarned =
                  IF sales[i].manager # None THEN sales[i].saleValue * by.mgrPct ELSE 0

\* a Sale with a manager and both commissions positive has been stored
\* while its request is still at work
C9_Witness ==
    \E i \in DOMAIN sales :
        /\ sales[i].manager # None
        /\ sales[i].commissionCalculated
        /\ sales[i].influencerCommissionEarned > 0
        /\ sales[i].managerCommissionEarned > 0
        /\ ~Answered(sales[i].createdBy)

(***************************************************************************)
(* Properties of commission resolution                                     *)
(***************************************************************************)
\* the tiers that qualify for a sale value: active, of the role, with a
\* minimum not above the value
Qualifying(role, saleValue) ==
    {t \in tiers : t.isActive /\ t.appliesTo = role /\ t.minSalesValue <= saleValue}
Resolved == preview.role # None

\* the brackets 0-1000, 1000.01-5000 and 5000.01 up at 10, 15 and 20 per
\* cent, in hundredths of the currency unit
ExampleTiers ==
    {Tier(1, 0, Some(100000), 10, "influencer", TRUE),
     Tier(2, 100001, Some(500000), 15, "influencer", TRUE),
     Tier(3, 500001, Absent, 20, "influencer", TRUE)}
ExamplePct(saleValue) ==
    {r.pct : r \in calculateCommission(ExampleTiers, saleValue, "influencer")}

\* C4: ResolveCommission applies the percentage of the qualifying tier with
\* the largest minSalesValue, alone (no summing over brackets); with the
\* brackets from 0, 1000.01 and 5000.01 at 10, 15 and 20 per cent the values
\* 999.99, 1000.01 and 1000000 get 10, 15 and 20 per cent.
C4_HighestBracketWins ==
    /\ ExamplePct(99999) = {10}
    /\ ExamplePct(100001) = {15}
    /\ ExamplePct(100000000) = {20}
    /\ Resolved /\ Qualifying(preview.role, preview.saleValue) # {} =>
          \E t \in Qualifying(preview.role, preview.saleValue) :
              /\ \A u \in Qualifying(preview.role, preview.saleValue) :
                     u.minSalesValue <= t.minSalesValue
              /\ preview.commission = preview.saleValue * t.commissionPercentage

\* two brackets of different percentages qualify and the commission is that
\* of the higher bracket
C4_Witness ==
    /\ Resolved
    /\ \E t, u \in Qualifying(preview.role, preview.saleValue) :
           /\ t.minSalesValue < u.minSalesValue
           /\ t.commissionPercentage # u.commissionPercentage
           /\ preview.commission = preview.saleValue * u.commissionPercentage

\* C5: when no tier qualifies (no active tier of the role, or the value is
\* below every minimum) ResolveCommission returns a commission of 0.
C5_NoTierIsZero ==
    Resolved /\ Qualifying(preview.role, preview.saleValue) = {} =>
        preview.commission = 0

\* a positive value resolved to 0 while the role has tiers, none qualifying
C5_Witness ==
    /\ Resolved /\ preview.saleValue > 0 /\ preview.commission = 0
    /\ Qualifying(preview.role, preview.saleValue) = {}
    /\ \E t \in tiers : t.appliesTo = preview.role /\ ~t.isActive
    /\ \E t \in tiers : t.appliesTo = preview.role /\ t.isActive

(***************************************************************************)
(* Properties of the intake of every payload shape                         *)
(***************************************************************************)
CouponOf(u) == IF users[u].exists THEN users[u].couponCode ELSE None

\* C6: a well-formed payload of any adapter whose coupon is no user's
\* couponCode is answered NotAttributed, a 2xx, and stores no Sale.
C6_UnmatchedCouponNotAttributed ==
    \A c \in Calls :
        /\ Answered(c) /\ calls[c].given.form = "well"
        /\ calls[c].given.coupon # None
        /\ \A u \in UserIds : CouponOf(u) # calls[c].given.coupon
        /\ StoredAtArrival(c) = {}
        => /\ calls[c].response.status \in 200..299
           /\ calls[c].response.body = "unprocessed"
           /\ SalesCreatedBy(c) = {}

\* C7: an ingested Sale has a non-empty couponCodeUsed, equal to the coupon
\* its payload carried and to the couponCode of its influencer; a payload
\* that carries no usable coupon stores no Sale.
C7_SaleCarriesItsCoupon ==
    /\ \A i \in DOMAIN sales :
           sales[i].processedViaWebhook =>
               /\ sales[i].couponCodeUsed \notin {None, ""}
               /\ sales[i].couponCodeUsed = calls[sales[i].createdBy].given.coupon
               /\ sales[i].couponCodeUsed = CouponOf(sales[i].influencer)
    /\ \A c \in Calls : calls[c].given.coupon = None => SalesCreatedBy(c) = {}

\* C8: a payload without an order object, an order identifier or a usable
\* total is answered with a 4xx, never a 5xx, and stores no Sale.
C8_MalformedIsClientError ==
    \A c \in Calls :
        Answered(c) /\ calls[c].given.form = "malformed" =>
            /\ calls[c].response.status \in 400..499
            /\ SalesCreatedBy(c) = {}

(***************************************************************************)
(* Properties of the notifications                                         *)
(***************************************************************************)
\* the ways a notification step ends without a message delivered
NotificationFailures ==
    {"sendError", "noCredential", "lookupFailed", "noManager", "renderError"}
FailedReports == {r \in job.reports : r.how \in NotificationFailures}

\* C10: when the notification of a delivery or of a payment generation
\* fails (the send fails, no credential is found, the manager lookup fails)
\* the request is still answered with its success result (201), and the Sale
\* or CommissionPayment stored before the attempt stays as it was stored.
C10_NotificationFailureIsSwallowed ==
    /\ \A c \in Calls :
           /\ calls[c].written # <<>> =>
                  /\ calls[c].saleId \in DOMAIN sales
                  /\ sales[calls[c].saleId] = calls[c].written[1]
           /\ Answered(c) /\ calls[c].notify \in NotificationFailures =>
                  /\ calls[c].written # <<>>
                  /\ calls[c].response = Response(201, calls[c].saleId, "created")
    /\ \A r \in job.reports :
           /\ r.payment \in DOMAIN payments
           /\ payments[r.payment] = r.doc
           /\ r.doc.user = r.to /\ r.doc.status = "pending"
    /\ job.pc = "done" /\ FailedReports # {} =>
           /\ job.response.status = 201
           /\ job.response.influencerPayments + job.response.managerPayments
                  = Cardinality(job.written)
           /\ job.written \subseteq DOMAIN payments

\* a delivery and a payment generation have both been answered after their
\* message could not be sent
C10_Witness ==
    /\ \E c \in Calls : Answered(c) /\ calls[c].notify = "sendError"
    /\ job.pc = "done"
    /\ \E r \in job.reports : r.how = "sendError" /\ r.doc.commissionEarned > 0

(***************************************************************************)
(* Properties of the sweep                                                 *)
(***************************************************************************)
PendingSales == {i \in DOMAIN sales : ~sales[i].commissionCalculated}

\* C11: once ProcessPendingCommissions has completed no Sale has
\* commissionCalculated = false, and a run begun after a completed one
\* finds nothing, changes no Sale and returns a processed count of 0 with
\* commission totals of 0.
C11_SweepIsIdempotent ==
    \A p \in Sweeps :
        sweeps[p].pc = "done" =>
            /\ PendingSales = {}
            /\ sweeps[p].response.processedSales = sweeps[p].found
            /\ sweeps[p].afterDone =>
                   /\ sweeps[p].found = 0
                   /\ sweeps[p].salesAtStart = sales
                   /\ sweeps[p].response = SweepResponse(200, 0, 0, 0)

\* a sweep that processed a Sale was answered, and the sweep begun after
\* it has been answered too
C11_Witness ==
    /\ sweeps["s1"].pc = "done" /\ sweeps["s1"].response.processedSales > 0
    /\ sweeps["s1"].response.totalInfluencerCommission > 0
    /\ sweeps["s2"].pc = "done" /\ sweeps["s2"].afterDone

(***************************************************************************)
(* Properties of payment generation                                        *)
(***************************************************************************)
\* the Sales a payment of the running request stands for: those stored when
\* the request queried them, calculated, dated within its period and
\* attributed to its user in its role
SalesFor(payment) ==
    {i \in 1..job.salesAtFind :
        /\ sales[i].commissionCalculated
        /\ sales[i].transactionDate >= payment.paymentPeriodStart
        /\ sales[i].transactionDate <= payment.paymentPeriodEnd
        /\ IF payment.roleAtPayment = "influencer"
           THEN sales[i].influencer = payment.user
           ELSE sales[i].manager = payment.user}

\* the sum of an amount over a set of Sales
RECURSIVE Total(_, _)
Total(ids, amount) ==
    IF ids = {} THEN 0
    ELSE LET i == CHOOSE j \in ids : TRUE IN amount[i] + Total(ids \ {i}, amount)

\* C12: each CommissionPayment created by GenerateCommissionPayments has as
\* sales exactly the calculated Sales of its period attributed to its user
\* in its role, as totalSalesValue the sum of their saleValue and as
\* commissionEarned the sum of their commission of that role.
C12_PaymentAggregates ==
    \A k \in job.written :
        LET payment == payments[k] IN
        /\ payment.sales = SalesFor(payment)
        /\ payment.totalSalesValue =
               Total(SalesFor(payment), [i \in DOMAIN sales |-> sales[i].saleValue])
        /\ payment.commissionEarned =
               Total(SalesFor(payment),
                     [i \in DOMAIN sales |->
                         IF payment.roleAtPayment = "influencer"
                         THEN sales[i].influencerCommissionEarned
                         ELSE sales[i].managerCommissionEarned])

\* an influencer payment and a manager payment over the same two Sales,
\* with different commissions
C12_Witness ==
    \E k, l \in job.written :
        /\ payments[k].roleAtPayment = "influencer"
        /\ payments[l].roleAtPayment = "manager"
        /\ Cardinality(payments[k].sales) = 2
        /\ payments[l].sales = payments[k].sales
        /\ payments[k].commissionEarned > payments[l].commissionEarned
        /\ payments[l].commissionEarned > 0

\* the payments of the running request for a user in a role
WrittenFor(user, role) ==
    {k \in job.written : payments[k].user = user /\ payments[k].roleAtPayment = role}

\* the Sales of the running request's period attributed to a user in a role
AttributedTo(user, role) ==
    {i \in 1..job.salesAtFind :
        /\ sales[i].commissionCalculated
        /\ InPeriod(i, job.periodStart, job.periodEnd)
        /\ IF role = "influencer" THEN sales[i].influencer = user
           ELSE sales[i].manager = user}

C14_NoSaleInTwoPayments ==
    \A k, l \in DOMAIN payments :
        (/\ k # l
         /\ payments[k].user = payments[l].user
         /\ payments[k].roleAtPayment = payments[l].roleAtPayment)
            => payments[k].sales \cap payments[l].sales = {}

\* the running request names a period that ends before it starts
InvalidPeriod == job.endsBeforeStart

\* C15: GenerateCommissionPayments with periodEnd before periodStart is
\* rejected with a 4xx answer and creates no payment, runs no sweep and
\* changes no Sale.
C15_InvalidPeriodRejected ==
    InvalidPeriod =>
        /\ job.pc = "done"
        /\ job.response = JobResponse(400, 0, 0, 0, 0)
        /\ job.written = {}
        /\ Len(payments) = job.paymentsAtStart
        /\ job.swept = 0
        /\ job.pendingSales = <<>>

\* such a request answered while a pending Sale waits and a payment of
\* an earlier request is stored
C15_Witness ==
    /\ InvalidPeriod
    /\ job.pc = "done"
    /\ job.paymentsAtStart > 0
    /\ \E i \in DOMAIN sales : ~sales[i].commissionCalculated

(***************************************************************************)
(* Properties of the bulk replacement of tiers                             *)
(***************************************************************************)
TiersOf(role, table) == {t \in table : t.appliesTo = role}

\* C16: a ReplaceTiers request that fails, on its validation or on an error
\* of the store while deleting or inserting, leaves the stored tiers of the
\* role as they were before the request.
C16_FailedReplaceKeepsTiers ==
    \A b \in Bulks :
        /\ (bulk[b].pc = "done" /\ bulk[b].status # 200) =>
               /\ bulk[b].after = bulk[b].before
               /\ TiersOf(bulk[b].appliesTo, bulk[b].after) =
                      TiersOf(bulk[b].appliesTo, bulk[b].before)
        /\ bulk[b].pc \in {"delete", "insert", "commit"} => tiers = bulk[b].before

\* a request rejected by the schema after its transaction had deleted the
\* role's tiers
C16_Witness ==
    /\ bulk["b1"].pc = "done"
    /\ bulk["b1"].status = 500
    /\ TiersOf(bulk["b1"].appliesTo, bulk["b1"].before) # {}
    /\ TiersOf(bulk["b1"].appliesTo, bulk["b1"].staged) = {}
    /\ \E k \in DOMAIN bulk["b1"].tiers : SchemaRejected(bulk["b1"].tiers[k])
    /\ TiersOf(bulk["b1"].appliesTo, tiers) = TiersOf(bulk["b1"].appliesTo, bulk["b1"].before)

(***************************************************************************)
(* Properties of the manager stored on a Sale                              *)
(***************************************************************************)
\* the manager an influencer has: the user its manager field names, if any
CurrentManager(directory, influencer) ==
    IF /\ directory[influencer].manager \in UserIds
       /\ directory[directory[influencer].manager].exists
    THEN directory[influencer].manager ELSE None

\* C17: changing or removing an influencer's manager, by an admin update
\* or by deleting the manager, leaves manager and managerCommissionEarned
\* of every existing Sale as they are; a Sale ingested afterwards stores
\* the manager the influencer has then.
C17_ManagerSnapshot ==
    [][/\ \A i \in DOMAIN sales :
              /\ i \in DOMAIN sales'
              /\ sales'[i].manager = sales[i].manager
              /\ sales'[i].managerCommissionEarned = sales[i].managerCommissionEarned
       /\ Len(sales') > Len(sales) =>
              sales'[Len(sales')].manager =
                  CurrentManager(users, sales'[Len(sales')].influencer)]_vars

\* two Sales of the influencer, the first with its first manager and that
\* manager's commission, the second with the manager it was given later
C17_Witness ==
    /\ Len(sales) = 2
    /\ sales[1].influencer = "i1" /\ sales[2].influencer = "i1"
    /\ sales[1].manager = "m1" /\ sales[1].managerCommissionEarned > 0
    /\ sales[2].manager = "m2"
    /\ users["i1"].manager = "m2"

(***************************************************************************)
(* Properties of calculated commissions                                    *)
(***************************************************************************)
\* C18: once a Sale has commissionCalculated true, its
\* influencerCommissionEarned and managerCommissionEarned never change,
\* whatever tier requests and sweeps run.
C18_CalculatedAmountsFrozen ==
    [][\A i \in DOMAIN sales :
           sales[i].commissionCalculated =>
               /\ sales'[i].influencerCommissionEarned = sales[i].influencerCommissionEarned
               /\ sales'[i].managerCommissionEarned = sales[i].managerCommissionEarned]_vars

(***************************************************************************)
(* Properties of the CartPanda coupon encodings                            *)
(***************************************************************************)
\* a CartPanda delivery of a well-formed new order that writes one code
EncodedDelivery(c) ==
    /\ calls[c].adapter = "cartpanda"
    /\ calls[c].pc = "done"
    /\ calls[c].given.form = "well"
    /\ calls[c].given.encoding \notin {"none", "later"}
    /\ calls[c].response.body # "already"

\* the influencer and the coupon of the Sale a delivery created, if any
Attribution(c) ==
    IF calls[c].written = <<>> THEN <<>>
    ELSE <<calls[c].written[1].influencer, calls[c].written[1].couponCodeUsed>>

\* C19: the CartPanda adapter extracts the same coupon code x whether
\* discount_codes is the string "x", the array [{code: "x"}], the array
\* ["x"] or the object {code: "x"}: deliveries that write the same code
\* are attributed alike.
C19_CouponEncodingsAgree ==
    \A c, d \in Calls :
        (/\ EncodedDelivery(c)
         /\ EncodedDelivery(d)
         /\ calls[c].given.code = calls[d].given.code)
            => Attribution(c) = Attribution(d)

\* the same property for codes without surrounding white space
C19_UnpaddedEncodingsAgree ==
    \A c, d \in Calls :
        (/\ EncodedDelivery(c)
         /\ EncodedDelivery(d)
         /\ calls[c].given.code = calls[d].given.code
         /\ Trim(calls[c].given.code) = calls[c].given.code)
            => Attribution(c) = Attribution(d)

(***************************************************************************)
(* Properties of the payment lifecycle                                     *)
(***************************************************************************)
\* C20: the status of a CommissionPayment changes only from pending to paid
\* or from pending to failed; paymentDate and transactionId are written
\* only by a transition to paid; no CommissionPayment is deleted.
C20_PaymentLifecycle ==
    [][/\ Len(payments') >= Len(payments)
       /\ \A k \in DOMAIN payments :
              /\ k \in DOMAIN payments'
              /\ payments'[k].status # payments[k].status =>
                     /\ payments[k].status = "pending"
                     /\ payments'[k].status \in {"paid", "failed"}
              /\ (\/ payments'[k].paymentDate # payments[k].paymentDate
                  \/ payments'[k].transactionId # payments[k].transactionId) =>
                     /\ payments[k].status = "pending"
                     /\ payments'[k].status = "paid"]_vars

\* the ranges and percentages of a set of tiers
Brackets(table) ==
    {<<t.minSalesValue, t.maxSalesValue, t.commissionPercentage>> : t \in table}

\* C21: after a successful ReplaceTiers(role, tierList) the stored tiers of
\* the role are exactly the submitted entries, all active; none of the
\* role's previous tiers, active or inactive, remains; the tiers of the
\* other role are unchanged.
C21_ReplaceStoresSubmitted ==
    \A b \in Bulks :
        (bulk[b].pc = "done" /\ bulk[b].status = 200) =>
            LET role == bulk[b].appliesTo
                stored == TiersOf(role, bulk[b].after)
                submitted == bulk[b].tiers
            IN /\ Brackets(stored) =
                      {<<submitted[k].minSalesValue[1], submitted[k].maxSalesValue,
                         submitted[k].commissionPercentage[1]>> : k \in DOMAIN submitted}
               /\ Cardinality(stored) = Len(submitted)
               /\ \A t \in stored : t.isActive
               /\ stored \cap bulk[b].before = {}
               /\ \A t \in stored : \A u \in bulk[b].before : t.id # u.id
               /\ bulk[b].after \ stored = bulk[b].before \ TiersOf(role, bulk[b].before)
               /\ tiers = bulk[b].after

\* two entries replace a role's deactivated tier while the other role
\* keeps its tier
C21_Witness ==
    /\ bulk["b1"].pc = "done"
    /\ bulk["b1"].status = 200
    /\ Len(bulk["b1"].tiers) = 2
    /\ \E t \in TiersOf(bulk["b1"].appliesTo, bulk["b1"].before) : ~t.isActive
    /\ Cardinality(TiersOf(bulk["b1"].appliesTo, tiers)) = 2
    /\ \E t \in tiers : t.appliesTo # bulk["b1"].appliesTo

\* C22: when discount_codes is an array whose first entry has no code or an
\* empty one and a later entry has a code, the Shopify and the CartPanda
\* adapter extract that first non-empty code: the Sale the request creates
\* carries that code, and a request whose code is some user's coupon
\* creates a Sale.
C22_FirstNonEmptyCodeWins ==
    \A c \in Calls :
        (/\ calls[c].adapter \in {"shopify", "cartpanda"}
         /\ calls[c].given.form = "well"
         /\ calls[c].given.encoding = "later"
         /\ StoredAtArrival(c) = {})
            => /\ \A i \in SalesCreatedBy(c) :
                      sales[i].couponCodeUsed = calls[c].given.coupon
               /\ (Answered(c) /\ \E u \in UserIds : CouponOf(u) = calls[c].given.coupon)
                      => SalesCreatedBy(c) # {}

\* C23: the sweep's calculateCommissionForSale and ingestion's
\* calculateCommission return the same commission for every role, every
\* sale value and every tier table (the stored table, and the stored table
\* with any further tier, active or not, beside it), and a Sale the sweep
\* calculated that has no stored manager has manager commission 0.
C23_SweepAndIngestAgree ==
    /\ \A role \in RoleNames, saleValue \in 0..MaxValue :
           /\ calculateCommissionForSale(tiers, saleValue, role)
                  = calculateCommission(tiers, saleValue, role)
           /\ \A min \in TierMins, pct \in TierPcts, appliesTo \in RoleNames, active \in BOOLEAN :
                  LET table == tiers \cup {Tier(NextTierId, min, Absent, pct, appliesTo, active)}
                  IN calculateCommissionForSale(table, saleValue, role)
                         = calculateCommission(table, saleValue, role)
    /\ \A i \in DOMAIN sales :
           (sales[i].commissionCalculated /\ sales[i].manager = None)
               => sales[i].managerCommissionEarned = 0

\* both sweeps have answered, a Sale with a manager and a Sale without one
\* were calculated, the first with a manager commission, while the
\* influencer tier is deactivated
C23_Witness ==
    /\ \A p \in Sweeps : sweeps[p].pc = "done"
    /\ \E t \in tiers : t.appliesTo = "influencer" /\ ~t.isActive
    /\ \E i \in DOMAIN sales :
           /\ sales[i].commissionCalculated
           /\ sales[i].manager # None
           /\ sales[i].managerCommissionEarned > 0
    /\ \E i \in DOMAIN sales :
           /\ sales[i].commissionCalculated
           /\ sales[i].manager = None
           /\ sales[i].influencerCommissionEarned = 0

C25_NotifyAfterPersist ==
    /\ \A c \in Calls :
           calls[c].pc \in {"notifyLookup", "send"} =>
               /\ calls[c].saleId \in DOMAIN sales
               /\ sales[calls[c].saleId].createdBy = c
    /\ job.pc = "report" =>
           /\ Len(payments) \in job.written
           /\ payments[Len(payments)].user = job.influencer
           /\ payments[Len(payments)].roleAtPayment = "influencer"
    /\ \A n \in notifications :
           IF n.kind = "newSale"
           THEN /\ n.about \in DOMAIN sales
                /\ sales[n.about].createdBy = n.by
                /\ sales[n.about].influencer = n.to
           ELSE /\ n.about \in DOMAIN payments
                /\ payments[n.about].user = n.to
                /\ payments[n.about].roleAtPayment = "influencer"

\* a delivery has attempted the notification of its Sale and a generation
\* the report of a payment, one of the two sends having failed
C25_Witness ==
    /\ \E n \in notifications : n.kind = "newSale" /\ Answered(n.by)
    /\ \E n \in notifications : n.kind = "report" /\ n.about \in job.written
    /\ \E n \in notifications : ~n.sent
    /\ job.pc = "done"

\* C26: every stored tier that has a maxSalesValue has it strictly above
\* its minSalesValue.
C26_MaxAboveMin ==
    \A t \in tiers :
        t.maxSalesValue # Absent => t.maxSalesValue[1] > t.minSalesValue

\* C27: when two ReplaceTiers requests for the same role are handled at
\* once (each arrived before the other was answered) and both are answered
\* 200, the stored tiers of the role are the entries of one of the two
\* lists, one document per entry, never the two lists together.
C27_OneListWins ==
    (/\ \A b \in Bulks : bulk[b].pc = "done" /\ bulk[b].status = 200
     /\ bulk["b1"].appliesTo = bulk["b2"].appliesTo
     /\ bulk["b2"].before = bulk["b1"].before)
        => \E b \in Bulks :
               LET stored == TiersOf(bulk[b].appliesTo, tiers)
                   submitted == bulk[b].tiers
               IN /\ Brackets(stored) =
                         {<<submitted[k].minSalesValue[1], submitted[k].maxSalesValue,
                            submitted[k].commissionPercentage[1]>> : k \in DOMAIN submitted}
                  /\ Cardinality(stored) = Len(submitted)

\* C28: whatever the interleaving of deliveries of one orderId, at most one
\* new-sale notification is attempted for that orderId, and the request that
\* attempts it is the one whose insert created the Sale; a request whose
\* insert was refused attempts none.
C28_OneNotificationPerOrder ==
    /\ \A n, m \in notifications :
           (/\ n.kind = "newSale" /\ m.kind = "newSale"
            /\ n.about \in DOMAIN sales /\ m.about \in DOMAIN sales
            /\ sales[n.about].orderId = sales[m.about].orderId) => n = m
    /\ \A n \in notifications :
           n.kind = "newSale" => n.about \in SalesCreatedBy(n.by)
    /\ \A c \in Calls :
           (calls[c].conflict \/ SalesCreatedBy(c) = {}) =>
               /\ NotificationsBy(c) = {}
               /\ calls[c].pc \notin {"notifyLookup", "send"}

\* two deliveries of one order both passed the duplicate lookup; the one
\* that stored the Sale attempted its notification, the other's insert was
\* refused and it was answered
C28_Witness ==
    \E c, d \in Calls :
        /\ c # d /\ calls[c].conflict /\ Answered(c) /\ Answered(d)
        /\ calls[c].salesAtStart = 0 /\ calls[d].salesAtStart = 0
        /\ calls[c].given.orderId = calls[d].given.orderId
        /\ SalesCreatedBy(d) # {}
        /\ NotificationsBy(d) # {}

\* C29: no step changes the user, the roleAtPayment, the set of sales, the
\* totalSalesValue, the commissionEarned or the period of a stored
\* CommissionPayment, the status update included, and no step removes a
\* payment: the fields keep the values of their creation.
C29_PaymentFieldsFrozen ==
    [][/\ Len(payments') >= Len(payments)
       /\ \A k \in DOMAIN payments :
              /\ payments'[k].user = payments[k].user
              /\ payments'[k].roleAtPayment = payments[k].roleAtPayment
              /\ payments'[k].sales = payments[k].sales
              /\ payments'[k].totalSalesValue = payments[k].totalSalesValue
              /\ payments'[k].commissionEarned = payments[k].commissionEarned
              /\ payments'[k].paymentPeriodStart = payments[k].paymentPeriodStart
              /\ payments'[k].paymentPeriodEnd = payments[k].paymentPeriodEnd]_vars

\* the first payment, with a commission, was marked failed with status
\* updates and a later generation has written further payments
C29_Witness ==
    /\ Len(payments) > 2
    /\ payments[1].status = "failed"
    /\ payments[1].commissionEarned > 0
    /\ payments[1].sales # {}
    /\ job.n = MaxJobs

\* C30: every stored Sale has saleValue >= 0, and every Sale calculated by
\* ingestion or by the sweep has both commissions between 0 and its
\* saleValue (amounts in hundredths: between 0 and 100 * saleValue), the
\* manager commission being 0 when the Sale has no stored manager.
C30_AmountsWithinSale ==
    \A i \in DOMAIN sales :
        /\ sales[i].saleValue >= 0
        /\ sales[i].commissionCalculated =>
               /\ 0 <= sales[i].influencerCommissionEarned
               /\ sales[i].influencerCommissionEarned <= 100 * sales[i].saleValue
               /\ 0 <= sales[i].managerCommissionEarned
               /\ sales[i].managerCommissionEarned <= 100 * sales[i].saleValue
               /\ sales[i].manager = None => sales[i].managerCommissionEarned = 0

\* a delivery of an order whose total is below 0 reached the insert, was
\* refused there and answered with an error and no Sale stored, the
\* sweep calculated a Sale entered outside the webhooks with a manager
\* commission, and a delivery stored a Sale whose influencer commission is
\* the whole sale value
C30_Witness ==
    /\ \E c \in Calls :
           /\ Answered(c) /\ calls[c].given.form = "other"
           /\ calls[c].response.status = 500 /\ SalesCreatedBy(c) = {}
    /\ \E i \in DOMAIN sales :
           /\ ~sales[i].processedViaWebhook
           /\ sales[i].commissionCalculated
           /\ sales[i].managerCommissionEarned > 0
    /\ \E i \in DOMAIN sales :
           /\ sales[i].processedViaWebhook
           /\ sales[i].saleValue > 0
           /\ sales[i].influencerCommissionEarned = 100 * sales[i].saleValue
====
